---------------------------- MODULE Spec2Model ----------------------------
(***************************************************************************)
(* Adaptive quantization field search of the JPEG XL encoder               *)
(* (jxl/enc_adaptive_quantization.cc): AdjustQuantField, TileDistMap,      *)
(* DistToPeakMap, AdjustQuantVal, the three search regimes                 *)
(* FindBestQuantization, FindBestQuantizationMaxError,                     *)
(* FindBestQuantizationHQ and the dispatcher FindBestQuantizer.            *)
(*                                                                         *)
(* float values are exact rationals <<n, d>> in lowest terms with d > 0;   *)
(* sqrt and pow, which leave the rationals, round to a fixed denominator   *)
(* (see FSqrt, FRoot5).                                                    *)
(* An image is a function from the cells <<x, y>> of the block grid;       *)
(* Row(y)[x + ix + iy * stride] of the source is cell <<x + ix, y + iy>>.  *)
(***************************************************************************)
EXTENDS Integers, Sequences, FiniteSets, TLC

VARIABLES pc, cparams, ac_strategy, quant_field, quantizer, fbq, hq, me, fn

vars == <<pc, cparams, ac_strategy, quant_field, quantizer, fbq, hq, me, fn>>

(***************************************************************************)
(* Bounds of the model.                                                    *)
(***************************************************************************)
\* block grid: quant_field.xsize() x quant_field.ysize()
XSize == 3
YSize == 2
\* largest local_radius DistToPeakMap is called with in its own check
MaxRadius == 2
\* how often AdjustQuantField is applied in a row in its own check
MaxAdjustCalls == 2
\* largest cparams.max_butteraugli_iters
MaxButteraugliIters == 2
\* sqrt returns a multiple of 1 / SqrtDen, the fifth root one of 1 / Root5Den
\* largest frame width and height, in pixels, of DiffPrecompute
MaxFrame == 9
MaxHQIters == 9
SqrtDen == 256
Root5Den == 16

Cells == (0 .. XSize - 1) \X (0 .. YSize - 1)
NumCells == XSize * YSize
\* raster order of the source's loops: y outer, x inner
CellAt(k) == <<k % XSize, k \div XSize>>

Null == [none |-> TRUE]

(***************************************************************************)
(* float arithmetic on rationals.                                          *)
(***************************************************************************)
Abs(i) == IF i < 0 THEN -i ELSE i

RECURSIVE GCD(_, _)
GCD(a, b) == IF b = 0 THEN a ELSE GCD(b, a % b)

Flt(n, d) == LET g == GCD(Abs(n), d) IN <<n \div g, d \div g>>

FAdd(a, b) == Flt(a[1] * b[2] + b[1] * a[2], a[2] * b[2])
FSub(a, b) == Flt(a[1] * b[2] - b[1] * a[2], a[2] * b[2])
\* common factors are cancelled before multiplying
FMul(a, b) ==
  LET g1 == GCD(Abs(a[1]), b[2])
      g2 == GCD(Abs(b[1]), a[2])
  IN Flt((a[1] \div g1) * (b[1] \div g2), (a[2] \div g2) * (b[2] \div g1))
\* b # 0 wherever the model divides
FDiv(a, b) ==
  IF b[1] > 0 THEN FMul(a, <<b[2], b[1]>>) ELSE FMul(a, <<-b[2], -b[1]>>)
\* the sign of n1 / d1 - n2 / d2, by the continued fractions of the two
RECURSIVE FCmp(_, _, _, _)
FCmp(n1, d1, n2, d2) ==
  LET q1 == n1 \div d1
      q2 == n2 \div d2
      r1 == n1 % d1
      r2 == n2 % d2
  IN IF q1 # q2 THEN (IF q1 < q2 THEN -1 ELSE 1)
     ELSE IF r1 = 0 /\ r2 = 0 THEN 0
     ELSE IF r1 = 0 THEN -1
     ELSE IF r2 = 0 THEN 1
     ELSE FCmp(d2, r2, d1, r1)

FLt(a, b) == FCmp(a[1], a[2], b[1], b[2]) < 0
FLe(a, b) == FCmp(a[1], a[2], b[1], b[2]) <= 0
FMax(a, b) == IF FLt(a, b) THEN b ELSE a
FMin(a, b) == IF FLt(b, a) THEN b ELSE a
FMaxSet(S) == CHOOSE m \in S : \A s \in S : FLe(s, m)
FMinSet(S) == CHOOSE m \in S : \A s \in S : FLe(m, s)
FZero == Flt(0, 1)
FOne == Flt(1, 1)
\* static_cast<int> of a float >= 0
FToInt(a) == a[1] \div a[2]

\* the largest r in lo .. hi with r * r <= v, given lo * lo <= v
RECURSIVE ISqrtIn(_, _, _)
ISqrtIn(lo, hi, v) ==
  IF lo = hi THEN lo
  ELSE LET mid == (lo + hi + 1) \div 2
       IN IF mid * mid <= v THEN ISqrtIn(mid, hi, v) ELSE ISqrtIn(lo, mid - 1, v)

\* std::sqrt: exact where the root is rational, else rounded to the nearest
\* multiple of 1 / SqrtDen
FSqrt(a) ==
  LET rn == ISqrtIn(0, 46340, a[1])
      rd == ISqrtIn(0, 46340, a[2])
      v == (a[1] * SqrtDen * SqrtDen) \div a[2]
      r == ISqrtIn(0, 46340, v)
  IN IF rn * rn = a[1] /\ rd * rd = a[2] THEN Flt(rn, rd)
     ELSE IF v - r * r > r THEN Flt(r + 1, SqrtDen) ELSE Flt(r, SqrtDen)

Pow5(r) == r * r * r * r * r

\* the largest r in lo .. hi with r^5 <= v, given lo^5 <= v
RECURSIVE IRoot5In(_, _, _)
IRoot5In(lo, hi, v) ==
  IF lo = hi THEN lo
  ELSE LET mid == (lo + hi + 1) \div 2
       IN IF Pow5(mid) <= v THEN IRoot5In(mid, hi, v) ELSE IRoot5In(lo, mid - 1, v)

\* std::pow(a, 0.2), rounded down to a multiple of 1 / Root5Den
FRoot5(a) ==
  Flt(IRoot5In(0, 73, (a[1] * Pow5(Root5Den)) \div a[2]), Root5Den)

\* std::pow(a, e) for the exponents the program uses: 0, 0.2 and 0.55
\* (a^0.55 = a^(1/2) * a^(1/20))
FPow(a, e) ==
  CASE e = Flt(0, 1) -> FOne
    [] e = Flt(1, 5) -> FRoot5(a)
    [] e = Flt(11, 20) -> FMul(FSqrt(a), FSqrt(FSqrt(FRoot5(a))))

(***************************************************************************)
(* AcStrategyImage: per cell, whether it is the first block of its         *)
(* varblock and how many blocks the varblock covers in x and y.            *)
(* A valid image tiles the grid: varblocks do not overlap and lie inside.  *)
(***************************************************************************)
AcsCell(first, cbx, cby) == [first |-> first, cbx |-> cbx, cby |-> cby]

\* the layout made of cx x cy varblocks laid out from column ox on, with
\* 8x8 blocks wherever a varblock would not fit
AcsLayout(cx, cy, ox) ==
  [c \in Cells |->
     LET x == c[1]
         y == c[2]
         bx == ox + ((x - ox) \div cx) * cx
         by == (y \div cy) * cy
     IN IF x < ox \/ bx + cx > XSize \/ by + cy > YSize
        THEN AcsCell(TRUE, 1, 1)
        ELSE AcsCell(x = bx /\ y = by, cx, cy)]

AcsLayouts ==
  {AcsLayout(s[1], s[2], ox) :
     s \in {<<1, 1>>, <<2, 1>>, <<1, 2>>, <<2, 2>>}, ox \in {0, 1}}

\* the cells the varblock whose first block is c covers
Covered(acs, c) ==
  {<<c[1] + ix, c[2] + iy>> :
     ix \in 0 .. acs[c].cbx - 1, iy \in 0 .. acs[c].cby - 1}

FirstBlocks(acs) == {c \in Cells : acs[c].first}

\* the first block of the varblock covering cell c
FirstOf(acs, c) == CHOOSE b \in FirstBlocks(acs) : c \in Covered(acs, b)

(***************************************************************************)
(* Input images: values vals[(a x + b y + s) mod Len(vals)].               *)
(***************************************************************************)
PatternField(vals, a, b, s) ==
  [c \in Cells |-> vals[((a * c[1] + b * c[2] + s) % Len(vals)) + 1]]

PatternFields(vals) ==
  {PatternField(vals, a, b, s) : a \in 0 .. 2, b \in 0 .. 2, s \in 0 .. 2}

(***************************************************************************)
(* AdjustQuantField                                                        *)
(***************************************************************************)
\* AdjustBlock reading only the first row of the varblock (iy * stride lost)
AdjustBlockFirstRow(acs, q, c) ==
  LET cov == Covered(acs, c)
      max == FMaxSet({q[d] : d \in {e \in cov : e[2] = c[2]}} \cup {q[c]})
  IN [d \in Cells |-> IF d \in cov THEN max ELSE q[d]]

\* the varblock at first block c: max over the covered cells, written back
AdjustBlock(acs, q, c) ==
  LET cov == Covered(acs, c)
      max == FMaxSet({q[d] : d \in cov} \cup {q[c]})
  IN [d \in Cells |-> IF d \in cov THEN max ELSE q[d]]

RECURSIVE AdjustFrom(_, _, _)
AdjustFrom(acs, q, k) ==
  IF k = NumCells THEN q
  ELSE IF ~acs[CellAt(k)].first THEN AdjustFrom(acs, q, k + 1)
  ELSE AdjustFrom(acs, AdjustBlock(acs, q, CellAt(k)), k + 1)

\* AdjustQuantField without the IsFirstBlock test: every cell acts as the
\* corner of a varblock of its strategy's size (clipped to the grid)
RECURSIVE AdjustFromNoSkip(_, _, _)
AdjustFromNoSkip(acs, q, k) ==
  IF k = NumCells THEN q
  ELSE LET cov == Covered(acs, CellAt(k)) \cap Cells
           max == FMaxSet({q[d] : d \in cov})
       IN AdjustFromNoSkip(acs, [d \in Cells |-> IF d \in cov THEN max ELSE q[d]],
                           k + 1)

AdjustQuantFieldNoSkip(acs, q) == AdjustFromNoSkip(acs, q, 0)

AdjustQuantField(acs, q) == AdjustFrom(acs, q, 0)

(***************************************************************************)
(* DistToPeakMap.  The result holds the floats -1, 0, 1, ... as integers.  *)
(***************************************************************************)
Window(c, local_radius) ==
  {d \in Cells :
     /\ d[1] >= (IF c[1] - local_radius < 0 THEN 0 ELSE c[1] - local_radius)
     /\ d[1] < (IF XSize < c[1] + 1 + local_radius THEN XSize
                ELSE c[1] + 1 + local_radius)
     /\ d[2] >= (IF c[2] - local_radius < 0 THEN 0 ELSE c[2] - local_radius)
     /\ d[2] < (IF YSize < c[2] + 1 + local_radius THEN YSize
                ELSE c[2] + 1 + local_radius)}

LocalMax(field, peak_min, c, local_radius) ==
  FMaxSet({field[d] : d \in Window(c, local_radius)} \cup {peak_min})

IsPeak(field, peak_min, c, local_radius, peak_weight) ==
  FLt(FAdd(FMul(FSub(FOne, peak_weight), peak_min),
           FMul(peak_weight, LocalMax(field, peak_min, c, local_radius))),
      field[c])

ChebDist(c, d) ==
  IF Abs(d[2] - c[2]) > Abs(d[1] - c[1]) THEN Abs(d[2] - c[2])
  ELSE Abs(d[1] - c[1])

\* Stamp where the first peak to reach a cell wins (cur_dist > dist lost)
StampFirstWins(result, c, local_radius) ==
  [d \in Cells |->
     IF d \in Window(c, local_radius) /\ result[d] < 0
     THEN ChebDist(c, d) ELSE result[d]]

\* the peak at c stamps its distance into its window
Stamp(result, c, local_radius) ==
  [d \in Cells |->
     IF d \in Window(c, local_radius)
        /\ (result[d] < 0 \/ result[d] > ChebDist(c, d))
     THEN ChebDist(c, d) ELSE result[d]]

RECURSIVE PeakFrom(_, _, _, _, _, _)
PeakFrom(field, peak_min, local_radius, peak_weight, result, k) ==
  IF k = NumCells THEN result
  ELSE PeakFrom(field, peak_min, local_radius, peak_weight,
                IF IsPeak(field, peak_min, CellAt(k), local_radius, peak_weight)
                THEN Stamp(result, CellAt(k), local_radius) ELSE result,
                k + 1)

DistToPeakMap(field, peak_min, local_radius, peak_weight) ==
  PeakFrom(field, peak_min, local_radius, peak_weight,
           [c \in Cells |-> -1], 0)

(***************************************************************************)
(* Quantizer (external): keeps what the last SetQuant / SetQuantField      *)
(* call handed it.  Scale() * InvGlobalScale() = 1.                        *)
(***************************************************************************)
\* an image nothing has been written to
NoImage == [c \in Cells |-> Flt(-1, 1)]

NoQuantizer == [op |-> "none", dc |-> FZero, ac |-> FZero, field |-> NoImage,
                calls |-> 0, inv_global_scale |-> Flt(8, 1)]

SetQuantField(qz, dc, field) ==
  [qz EXCEPT !.op = "SetQuantField", !.dc = dc, !.ac = FZero,
             !.field = field, !.calls = qz.calls + 1]

SetQuant(qz, dc, ac) ==
  [qz EXCEPT !.op = "SetQuant", !.dc = dc, !.ac = ac, !.field = NoImage,
             !.calls = qz.calls + 1]

InvGlobalScale(qz) == qz.inv_global_scale
Scale(qz) == FDiv(FOne, qz.inv_global_scale)

(***************************************************************************)
(* CompressParams, with the rescale argument of FindBestQuantizer.         *)
(***************************************************************************)
SpeedTiers ==
  <<"kTortoise", "kKitten", "kSquirrel", "kWombat", "kHare", "kCheetah",
    "kFalcon">>
SpeedTierRank(t) == CHOOSE k \in 1 .. Len(SpeedTiers) : SpeedTiers[k] = t

Params(modes, tiers, uniforms, targets, iters, iters_hq) ==
  [max_error_mode : modes, speed_tier : tiers, uniform_quant : uniforms,
   butteraugli_distance : targets, max_butteraugli_iters : iters,
   max_butteraugli_iters_guetzli_mode : iters_hq, rescale : {Flt(1, 2)}]

(***************************************************************************)
(* InitialQuantDC                                                          *)
(***************************************************************************)
kDcQuantPow == Flt(11, 20)
kDcQuant == Flt(118, 100)
kAcQuant == Flt(84, 100)
kDcMul == Flt(29, 10)

\* InitialQuantDC without the cap at 50
InitialQuantDCNoCap(butteraugli_target) ==
  LET butteraugli_target_dc ==
        FMin(butteraugli_target,
             FMul(kDcMul,
                  FPow(FMul(FDiv(FOne, kDcMul), butteraugli_target),
                       kDcQuantPow)))
  IN FDiv(kDcQuant, butteraugli_target_dc)

InitialQuantDC(butteraugli_target) ==
  LET butteraugli_target_dc ==
        FMin(butteraugli_target,
             FMul(kDcMul,
                  FPow(FMul(FDiv(FOne, kDcMul), butteraugli_target),
                       kDcQuantPow)))
  IN FMin(FDiv(kDcQuant, butteraugli_target_dc), Flt(50, 1))

(***************************************************************************)
(* TileDistMap.  The diffmap of the comparator is kept as the 16-norm      *)
(* kTileNorm * pow(dist_norm / pixels, 1/16) of each varblock's window,    *)
(* one value per first block and margin: diffmap.m0 for margin 0,          *)
(* diffmap.m2 for margin 2.  The result image starts uninitialised.        *)
(***************************************************************************)
UninitTile == Flt(-1, 1)

TileNorm(diffmap, margin, c) ==
  IF margin = 0 THEN diffmap.m0[c] ELSE diffmap.m2[c]

\* TileBroadcast without the loop over the covered blocks
TileBroadcastFirstOnly(acs, tile_distmap, c, tile_dist) ==
  [d \in Cells |-> IF d = c THEN tile_dist ELSE tile_distmap[d]]

\* the varblock at first block c: tile_dist written to every covered cell
TileBroadcast(acs, tile_distmap, c, tile_dist) ==
  [d \in Cells |-> IF d = c \/ d \in Covered(acs, c) THEN tile_dist
                   ELSE tile_distmap[d]]

RECURSIVE TileFrom(_, _, _, _, _)
TileFrom(diffmap, margin, acs, tile_distmap, k) ==
  IF k = NumCells THEN tile_distmap
  ELSE IF ~acs[CellAt(k)].first
       THEN TileFrom(diffmap, margin, acs, tile_distmap, k + 1)
  ELSE TileFrom(diffmap, margin, acs,
                TileBroadcast(acs, tile_distmap, CellAt(k),
                              TileNorm(diffmap, margin, CellAt(k))),
                k + 1)

TileDistMap(diffmap, margin, acs) ==
  TileFrom(diffmap, margin, acs, [c \in Cells |-> UninitTile], 0)

(***************************************************************************)
(* FindBestQuantization                                                    *)
(***************************************************************************)
kOriginalComparisonRound == 1
kMaximumDistanceIncreaseFactor == Flt(1015, 1000)
kInitMul == Flt(6, 10)
kPow == <<Flt(2, 10), Flt(2, 10), FZero, FZero, FZero, FZero, FZero, FZero>>
kPowMod == <<FZero, FZero, FZero, FZero, FZero, FZero, FZero, FZero>>
\* kMargins[100] = {0, 0, 0, 0, 0, 0, 0, 0, 0}: every entry is 0
kMarginsLen == 100
\* what a read past the end of the table may yield: zero or not
PastTheEnd == {0, 2}
\* the values kMargins[i] may yield
kMargins(i) == IF i < kMarginsLen THEN {0} ELSE PastTheEnd

\* QfBounds with qf_higher = initial_qf_max * qf_max_deviation_low
QfBoundsNoAsymmetry(initial_quant_field) ==
  LET initial_qf_min == FMinSet({initial_quant_field[c] : c \in Cells})
      initial_qf_max == FMaxSet({initial_quant_field[c] : c \in Cells})
      initial_qf_ratio == FDiv(initial_qf_max, initial_qf_min)
      qf_max_deviation_low == FSqrt(FDiv(Flt(250, 1), initial_qf_ratio))
      asymmetry == IF FLt(qf_max_deviation_low, Flt(2, 1))
                   THEN qf_max_deviation_low ELSE Flt(2, 1)
  IN [qf_lower |->
        FDiv(initial_qf_min, FMul(asymmetry, qf_max_deviation_low)),
      qf_higher |-> FMul(initial_qf_max, qf_max_deviation_low)]

\* qf_lower and qf_higher of the setup
QfBounds(initial_quant_field) ==
  LET initial_qf_min == FMinSet({initial_quant_field[c] : c \in Cells})
      initial_qf_max == FMaxSet({initial_quant_field[c] : c \in Cells})
      initial_qf_ratio == FDiv(initial_qf_max, initial_qf_min)
      qf_max_deviation_low == FSqrt(FDiv(Flt(250, 1), initial_qf_ratio))
      asymmetry == IF FLt(qf_max_deviation_low, Flt(2, 1))
                   THEN qf_max_deviation_low ELSE Flt(2, 1)
  IN [qf_lower |->
        FDiv(initial_qf_min, FMul(asymmetry, qf_max_deviation_low)),
      qf_higher |->
        FMul(initial_qf_max, FDiv(qf_max_deviation_low, asymmetry))]

\* if (q > qf_higher) q = qf_higher; if (q < qf_lower) q = qf_lower;
ClampQf(q, qf_lower, qf_higher) ==
  LET q1 == IF FLt(qf_higher, q) THEN qf_higher ELSE q
  IN IF FLt(q1, qf_lower) THEN qf_lower ELSE q1

\* an undo that resets a cell when either condition holds
RevertStepEither(q, last_q, dist, last_dist) ==
  [c \in Cells |->
     IF FLt(last_q[c], q[c])
        \/ FLt(FMul(kMaximumDistanceIncreaseFactor, last_dist[c]), dist[c])
     THEN last_q[c] ELSE q[c]]

\* the undo of the last round, for i > kOriginalComparisonRound
RevertStep(q, last_q, dist, last_dist) ==
  [c \in Cells |->
     IF FLt(last_q[c], q[c])
        /\ FLt(FMul(kMaximumDistanceIncreaseFactor, last_dist[c]), dist[c])
     THEN last_q[c] ELSE q[c]]

\* the floor towards the initial field, for i = kOriginalComparisonRound
FloorStep(q, init, qf_lower, qf_higher) ==
  [c \in Cells |->
     LET clamp == FAdd(FMul(FSub(FOne, kInitMul), q[c]),
                       FMul(kInitMul, init[c]))
     IN IF FLt(q[c], clamp) THEN ClampQf(clamp, qf_lower, qf_higher)
        ELSE q[c]]

\* cur_pow of an exponent table that is zero in every entry
CurPowZero(i, butteraugli_target) == FZero

\* lines 842-848
CurPow(i, butteraugli_target) ==
  IF i < 7
  THEN LET p == FAdd(kPow[i + 1],
                     FMul(FSub(butteraugli_target, FOne), kPowMod[i + 1]))
       IN IF FLt(p, FZero) THEN FZero ELSE p
  ELSE FZero

\* the raise without the step of one Scale
RaiseCellNoStep(q, diff, qz) == FMul(q, diff)

\* the cell of a varblock whose distance is above the target
RaiseCell(q, diff, qz) ==
  LET new == FMul(q, diff)
      qf_old == FToInt(FAdd(FMul(q, InvGlobalScale(qz)), Flt(1, 2)))
      qf_new == FToInt(FAdd(FMul(new, InvGlobalScale(qz)), Flt(1, 2)))
  IN IF qf_old = qf_new THEN FAdd(q, Scale(qz)) ELSE new

UpdateStep(q, dist, butteraugli_target, cur_pow, qf_lower, qf_higher, qz) ==
  [c \in Cells |->
     LET diff == FDiv(dist[c], butteraugli_target)
         q1 == IF FLt(FOne, diff) THEN RaiseCell(q[c], diff, qz)
               ELSE IF cur_pow = FZero THEN q[c]
               ELSE FMul(q[c], FPow(diff, cur_pow))
     IN ClampQf(q1, qf_lower, qf_higher)]

\* what the roundtrip and the comparator may return in one iteration
Uniform(v) == [c \in Cells |-> v]

FieldMax(field) == FMaxSet({field[c] : c \in Cells})
FieldMin(field) == FMinSet({field[c] : c \in Cells})

DiffMaps ==
  {[m0 |-> a, m2 |-> b] :
     a \in {Uniform(Flt(1, 1)), Uniform(Flt(3, 1)),
            PatternField(<<Flt(1, 1), Flt(8, 1)>>, 1, 1, 0)},
     b \in {Uniform(Flt(2, 1)), Uniform(Flt(3, 1)),
            PatternField(<<Flt(2, 1), Flt(9, 1)>>, 1, 0, 0)}}

\* initial fields with qf_max / qf_min = 10, 160 and 1000
FBQFields ==
  {PatternField(v, 1, 1, s) :
     v \in {<<Flt(1, 1), Flt(10, 1)>>, <<Flt(1, 2), Flt(80, 1)>>,
            <<Flt(1, 100), Flt(10, 1)>>},
     s \in {0, 1}}

FBQParams ==
  Params({FALSE}, {"kKitten"}, {FZero}, {Flt(2, 1)},
         0 .. MaxButteraugliIters + 1, {0})

\* the state on entry to FindBestQuantization
InitFBQ ==
  /\ pc = "FindBestQuantization"
  /\ cparams \in FBQParams
  /\ ac_strategy \in AcsLayouts
  /\ quant_field \in FBQFields
  /\ quantizer = NoQuantizer
  /\ fbq = Null /\ hq = Null /\ me = Null /\ fn = Null

\* lines 720-743: AdjustQuantField, the copies, the bounds and their assert
FBQSetup ==
  /\ pc = "FindBestQuantization"
  /\ LET adjusted == AdjustQuantField(ac_strategy, quant_field)
         b == QfBounds(adjusted)
     IN /\ quant_field' = adjusted
        /\ fbq' = [i |-> 0,
                   initial_quant_dc |-> InitialQuantDC(cparams.butteraugli_distance),
                   initial_quant_field |-> adjusted,
                   last_quant_field |-> adjusted,
                   last_tile_distmap_localopt |-> Null,
                   tile_distmap |-> Null,
                   tile_distmap_localopt |-> Null,
                   qf_lower |-> b.qf_lower,
                   qf_higher |-> b.qf_higher,
                   margin |-> 0,
                   margin_index |-> 0,
                   roundtrips |-> 0,
                   updates |-> 0,
                   reverted |-> {},
                   cur_pow |-> FZero,
                   floored |-> adjusted]
        /\ pc' = IF FLt(FDiv(b.qf_higher, b.qf_lower), Flt(253, 1))
                 THEN "FBQ_loop" ELSE "JXL_ASSERT"
  /\ UNCHANGED <<cparams, ac_strategy, quantizer, hq, me, fn>>

\* a loop that stops one pass early
FBQLastEarly(i, max_butteraugli_iters) == i + 1 >= max_butteraugli_iters

\* line 814: if (i == cparams.max_butteraugli_iters) break;
FBQLast(i, max_butteraugli_iters) == i = max_butteraugli_iters

\* one pass of the loop body, lines 748-891, for a comparator result diffmap
\* of diffmaps
FBQIterateOn(diffmaps) ==
  /\ pc = "FBQ_loop"
  /\ fbq.i < cparams.max_butteraugli_iters + 1
  /\ \E diffmap \in diffmaps, margin \in kMargins(fbq.i) :
       LET i == fbq.i
           tile_distmap == TileDistMap(diffmap, margin, ac_strategy)
           tile_distmap_localopt == TileDistMap(diffmap, 2, ac_strategy)
           reverted ==
             IF i > kOriginalComparisonRound
             THEN RevertStep(quant_field, fbq.last_quant_field,
                             tile_distmap_localopt,
                             fbq.last_tile_distmap_localopt)
             ELSE quant_field
           floored ==
             IF i = kOriginalComparisonRound
             THEN FloorStep(reverted, fbq.initial_quant_field,
                            fbq.qf_lower, fbq.qf_higher)
             ELSE reverted
           updated ==
             UpdateStep(floored, tile_distmap, cparams.butteraugli_distance,
                        CurPow(i, cparams.butteraugli_distance),
                        fbq.qf_lower, fbq.qf_higher, quantizer)
           last == FBQLast(i, cparams.max_butteraugli_iters)
       IN /\ quantizer' = SetQuantField(quantizer, fbq.initial_quant_dc,
                                        quant_field)
          /\ quant_field' = IF last THEN reverted ELSE updated
          /\ fbq' = [fbq EXCEPT
                       !.i = IF last THEN i ELSE i + 1,
                       !.last_quant_field = reverted,
                       !.last_tile_distmap_localopt = tile_distmap_localopt,
                       !.tile_distmap = tile_distmap,
                       !.tile_distmap_localopt = tile_distmap_localopt,
                       !.margin = margin,
                       !.margin_index = i,
                       !.roundtrips = fbq.roundtrips + 1,
                       !.updates = IF last THEN fbq.updates
                                   ELSE fbq.updates + 1,
                       !.reverted = {c \in Cells : reverted[c] # quant_field[c]},
                       !.cur_pow = CurPow(i, cparams.butteraugli_distance),
                       !.floored = floored]
          /\ pc' = IF last THEN "FBQ_final" ELSE "FBQ_loop"
  /\ UNCHANGED <<cparams, ac_strategy, hq, me, fn>>

FBQIterate == FBQIterateOn(DiffMaps)

\* line 892: the call after the loop
FBQFinish ==
  /\ pc = "FBQ_final"
  /\ quantizer' = SetQuantField(quantizer, fbq.initial_quant_dc, quant_field)
  /\ pc' = "done"
  /\ UNCHANGED <<cparams, ac_strategy, quant_field, fbq, hq, me, fn>>

NextFBQ == FBQSetup \/ FBQIterate \/ FBQFinish

SpecFBQ == InitFBQ /\ [][NextFBQ]_vars

(***************************************************************************)
(* FindBestQuantization with max_butteraugli_iters around the length of    *)
(* kMargins, for one comparator result per iteration.                      *)
(***************************************************************************)
LongRunParams ==
  Params({FALSE}, {"kKitten"}, {FZero}, {Flt(2, 1)},
         {kMarginsLen - 1, kMarginsLen}, {0})

LongRunDiffMaps == {[m0 |-> Uniform(Flt(1, 1)), m2 |-> Uniform(Flt(2, 1))]}

InitLongRun ==
  /\ pc = "FindBestQuantization"
  /\ cparams \in LongRunParams
  /\ ac_strategy \in AcsLayouts
  /\ quant_field = PatternField(<<Flt(1, 1), Flt(10, 1)>>, 1, 1, 0)
  /\ quantizer = NoQuantizer
  /\ fbq = Null /\ hq = Null /\ me = Null /\ fn = Null

FBQIterateLongRun == FBQIterateOn(LongRunDiffMaps)

NextLongRun == FBQSetup \/ FBQIterateLongRun \/ FBQFinish

SpecLongRun == InitLongRun /\ [][NextLongRun]_vars

(***************************************************************************)
(* The setup of FindBestQuantization on its own, for fields of any ratio   *)
(* qf_max / qf_min, uniform fields included.                               *)
(***************************************************************************)
QfVals ==
  {Flt(1, 50), Flt(1, 4), Flt(1, 2), Flt(1, 1), Flt(2, 1), Flt(3, 1),
   Flt(10, 1), Flt(20, 1)}

InitQfBounds ==
  /\ pc = "FindBestQuantization"
  /\ cparams \in FBQParams
  /\ ac_strategy \in AcsLayouts
  /\ quant_field \in
       {PatternField(<<a, b>>, 1, 1, s) : a \in QfVals, b \in QfVals, s \in {0, 1}}
  /\ quantizer = NoQuantizer
  /\ fbq = Null /\ hq = Null /\ me = Null /\ fn = Null

NextQfBounds == FBQSetup

SpecQfBounds == InitQfBounds /\ [][NextQfBounds]_vars

(***************************************************************************)
(* FindBestQuantizationMaxError.  The roundtrip is kept as the max_error   *)
(* it yields for each varblock: the largest |opsin - decoded| *            *)
(* inv_max_err[c] over the varblock's pixels and the three channels.       *)
(***************************************************************************)
QfMul(max_error) ==
  IF FLt(max_error, Flt(1, 2)) THEN FMul(max_error, Flt(2, 1))
  ELSE IF FLt(FOne, max_error) THEN max_error ELSE FOne

\* the varblock at first block c: every covered cell times qf_mul
MEBlock(acs, q, c, qf_mul) ==
  [d \in Cells |-> IF d \in Covered(acs, c) THEN FMul(q[d], qf_mul) ELSE q[d]]

RECURSIVE MEFrom(_, _, _, _)
MEFrom(acs, q, max_error, k) ==
  IF k = NumCells THEN q
  ELSE IF ~acs[CellAt(k)].first THEN MEFrom(acs, q, max_error, k + 1)
  ELSE MEFrom(acs, MEBlock(acs, q, CellAt(k), QfMul(max_error[CellAt(k)])),
              max_error, k + 1)

MaxErrors ==
  {PatternField(<<a, b>>, 1, 1, 0) :
     a \in {FZero, Flt(1, 4), Flt(1, 2), Flt(3, 4), FOne, Flt(2, 1)},
     b \in {Flt(1, 4), Flt(1, 2), Flt(2, 1)}}

MEFields ==
  {PatternField(<<Flt(1, 1), Flt(3, 1)>>, 1, 1, s) : s \in {0, 1}}

MEParams ==
  Params({TRUE}, {"kSquirrel"}, {FZero}, {Flt(2, 1)},
         0 .. MaxButteraugliIters, {0})

\* the state on entry to FindBestQuantizationMaxError
InitME ==
  /\ pc = "FindBestQuantizationMaxError"
  /\ cparams \in MEParams
  /\ ac_strategy \in AcsLayouts
  /\ quant_field \in MEFields
  /\ quantizer = NoQuantizer
  /\ fbq = Null /\ hq = Null /\ me = Null /\ fn = Null

\* lines 903-910
MESetup ==
  /\ pc = "FindBestQuantizationMaxError"
  /\ quant_field' = AdjustQuantField(ac_strategy, quant_field)
  /\ me' = [i |-> 0,
            initial_quant_dc |->
              FMul(Flt(16, 1),
                   FSqrt(FDiv(Flt(1, 10), cparams.butteraugli_distance))),
            max_error |-> Null,
            before |-> Null,
            roundtrips |-> 0]
  /\ pc' = "ME_loop"
  /\ UNCHANGED <<cparams, ac_strategy, quantizer, fbq, hq, fn>>

\* a loop that sets the field once, in its first pass
MEIterateSetOnce ==
  /\ pc = "ME_loop"
  /\ me.i < cparams.max_butteraugli_iters + 1
  /\ \E max_error \in MaxErrors :
       /\ quantizer' = IF me.i = 0
                       THEN SetQuantField(quantizer, me.initial_quant_dc,
                                          quant_field)
                       ELSE quantizer
       /\ quant_field' = MEFrom(ac_strategy, quant_field, max_error, 0)
       /\ me' = [me EXCEPT !.i = me.i + 1, !.max_error = max_error,
                           !.before = quant_field,
                           !.roundtrips = me.roundtrips + 1]
  /\ UNCHANGED <<pc, cparams, ac_strategy, fbq, hq, fn>>

\* one pass of the loop body, lines 912-958
MEIterate ==
  /\ pc = "ME_loop"
  /\ me.i < cparams.max_butteraugli_iters + 1
  /\ \E max_error \in MaxErrors :
       /\ quantizer' = SetQuantField(quantizer, me.initial_quant_dc, quant_field)
       /\ quant_field' = MEFrom(ac_strategy, quant_field, max_error, 0)
       /\ me' = [me EXCEPT !.i = me.i + 1, !.max_error = max_error,
                           !.before = quant_field,
                           !.roundtrips = me.roundtrips + 1]
  /\ UNCHANGED <<pc, cparams, ac_strategy, fbq, hq, fn>>

\* line 959: the call after the loop
MEFinish ==
  /\ pc = "ME_loop"
  /\ ~(me.i < cparams.max_butteraugli_iters + 1)
  /\ quantizer' = SetQuantField(quantizer, me.initial_quant_dc, quant_field)
  /\ pc' = "done"
  /\ UNCHANGED <<cparams, ac_strategy, quant_field, fbq, hq, me, fn>>

NextME == MESetup \/ MEIterate \/ MEFinish

SpecME == InitME /\ [][NextME]_vars

(***************************************************************************)
(* FindBestQuantizationHQ.  The comparator is kept as the score and the    *)
(* per-varblock distance it yields after each roundtrip; its scores are    *)
(* lower-is-better.                                                        *)
(***************************************************************************)
kMaxSearchRadius == 4

AdjustQuantVal(q, d, factor, quant_max) ==
  IF FLe(FMul(Flt(999, 1000), quant_max), q) THEN [q |-> q, ret |-> FALSE]
  ELSE LET inv_q == FDiv(FOne, q)
           adj_inv_q == FSub(inv_q, FDiv(factor, FAdd(Flt(d, 1), FOne)))
       IN [q |-> FDiv(FOne, FMax(FDiv(FOne, quant_max), adj_inv_q)),
           ret |-> TRUE]

kMaxOuterIters == 2
kAdjSpeed(outer_iter) == IF outer_iter = 0 THEN Flt(1, 10) ELSE Flt(1, 25)
kQuantScale == Flt(3, 4)

\* score < best_score instead of score <= best_score
HQBetterStrict(score, best_score) == FLt(score, best_score)

\* line 1023
HQBetter(score, best_score) == FLe(score, best_score)

\* butteraugli_iter == max_iters instead of butteraugli_iter >= max_iters
HQBudgetSpentExactly(butteraugli_iter, max_iters) == butteraugli_iter = max_iters

\* line 1051
HQBudgetSpent(butteraugli_iter, max_iters) == butteraugli_iter >= max_iters

\* HQExtend with quant_dc tried before search_radius
HQExtendDcFirst(search_radius, qmax, quant_ceil, quant_dc) ==
  IF FLt(quant_dc, FSub(FMul(Flt(2, 5), quant_ceil), Flt(4, 5)))
  THEN "quant_dc"
  ELSE IF /\ search_radius < kMaxSearchRadius
          /\ \/ FLt(qmax, FMul(Flt(99, 100), quant_ceil))
             \/ FLe(Flt(3 + search_radius, 1), quant_ceil)
  THEN "search_radius"
  ELSE IF FLt(quant_ceil, Flt(8, 1)) THEN "quant_ceil"
  ELSE "break"

\* lines 1074-1091: the search parameter to extend, or the break
HQExtend(search_radius, qmax, quant_ceil, quant_dc) ==
  IF /\ search_radius < kMaxSearchRadius
     /\ \/ FLt(qmax, FMul(Flt(99, 100), quant_ceil))
        \/ FLe(Flt(3 + search_radius, 1), quant_ceil)
  THEN "search_radius"
  ELSE IF FLt(quant_dc, FSub(FMul(Flt(2, 5), quant_ceil), Flt(4, 5)))
  THEN "quant_dc"
  ELSE IF FLt(quant_ceil, Flt(8, 1)) THEN "quant_ceil"
  ELSE "break"

\* lines 1057-1072: one radius of the search, over every cell
HQAdjustCells(q, tile_distmap, dist_to_peak_map, outer_iter, quant_ceil) ==
  LET adj == [c \in Cells |->
                AdjustQuantVal(q[c], dist_to_peak_map[c],
                               FMul(kAdjSpeed(outer_iter), tile_distmap[c]),
                               quant_ceil)]
      hit == {c \in Cells : dist_to_peak_map[c] >= 0}
  IN [q |-> [c \in Cells |-> IF c \in hit THEN adj[c].q ELSE q[c]],
      changed |-> \E c \in hit : adj[c].ret]

HQAdjustPass(q, tile_distmap, butteraugli_target, radius, outer_iter, quant_ceil) ==
  HQAdjustCells(q, tile_distmap,
                DistToPeakMap(tile_distmap, butteraugli_target, radius, FZero),
                outer_iter, quant_ceil)

\* line 1056: radius = 0 .. search_radius, until a pass changes something
RECURSIVE HQRadiusLoop(_, _, _, _, _, _, _)
HQRadiusLoop(q, tile_distmap, butteraugli_target, radius, search_radius, outer_iter, quant_ceil) ==
  IF radius > search_radius THEN [q |-> q, changed |-> FALSE]
  ELSE LET r == HQAdjustPass(q, tile_distmap, butteraugli_target, radius,
                             outer_iter, quant_ceil)
       IN IF r.changed THEN r
          ELSE HQRadiusLoop(r.q, tile_distmap, butteraugli_target, radius + 1,
                            search_radius, outer_iter, quant_ceil)

HQScores == {Flt(1, 1), Flt(3, 1)}

HQDiffMaps ==
  {[m0 |-> a, m2 |-> a] :
     a \in {Uniform(Flt(1, 1)), Uniform(Flt(3, 1)),
            PatternField(<<Flt(8, 1), Flt(1, 1), Flt(1, 1)>>, 1, 0, 0)}}

HQFields ==
  {Uniform(Flt(1, 1)),
   PatternField(<<Flt(2, 1), Flt(1, 1), Flt(1, 1)>>, 1, 0, 0)}

HQParams ==
  Params({FALSE}, {"kTortoise"}, {FZero}, {Flt(2, 1)}, {0},
         0 .. MaxButteraugliIters + 1)

\* the state on entry to FindBestQuantizationHQ
InitHQ ==
  /\ pc = "FindBestQuantizationHQ"
  /\ cparams \in HQParams
  /\ ac_strategy \in AcsLayouts
  /\ quant_field \in HQFields
  /\ quantizer = NoQuantizer
  /\ fbq = Null /\ hq = Null /\ me = Null /\ fn = Null

\* lines 974-989
HQSetup ==
  /\ pc = "FindBestQuantizationHQ"
  /\ LET adjusted == AdjustQuantField(ac_strategy, quant_field)
     IN /\ quant_field' = adjusted
        /\ hq' = [best_quant_field |-> adjusted,
                  best_score |-> Flt(1000000, 1),
                  tile_distmap |-> NoImage,
                  outer_iter |-> 0,
                  butteraugli_iter |-> 0,
                  search_radius |-> 0,
                  quant_ceil |-> Flt(5, 1),
                  quant_dc |-> Flt(6, 5),
                  best_quant_dc |-> Flt(6, 5),
                  num_stalling_iters |-> 0,
                  max_iters |-> cparams.max_butteraugli_iters_guetzli_mode,
                  qmax |-> FZero,
                  score |-> FZero,
                  changed |-> FALSE,
                  scaled |-> 0,
                  pass_changed |-> FALSE,
                  extended |-> "none",
                  latest_within |-> Null]
  /\ pc' = "HQ_loop"
  /\ UNCHANGED <<cparams, ac_strategy, quantizer, fbq, me, fn>>

\* lines 1001-1054: SetQuantField, roundtrip, comparison, best bookkeeping,
\* for a comparator result <<score, diffmap>> of results
HQRoundtripOn(results) ==
  /\ pc = "HQ_loop"
  /\ \E result \in results :
       LET score == result[1]
           diffmap == result[2]
           better == HQBetter(score, hq.best_score)
           butteraugli_iter == hq.butteraugli_iter + 1
       IN /\ quantizer' = SetQuantField(quantizer, hq.quant_dc, quant_field)
          /\ hq' = [hq EXCEPT
               !.qmax = FieldMax(quant_field),
               !.butteraugli_iter = butteraugli_iter,
               !.score = score,
               !.best_quant_field =
                  IF better THEN quant_field ELSE hq.best_quant_field,
               !.best_score =
                  IF better THEN FMax(score, cparams.butteraugli_distance)
                  ELSE hq.best_score,
               !.best_quant_dc =
                  IF better THEN hq.quant_dc ELSE hq.best_quant_dc,
               !.num_stalling_iters =
                  IF better THEN 0
                  ELSE IF hq.outer_iter = 0 THEN hq.num_stalling_iters + 1
                  ELSE hq.num_stalling_iters,
               !.tile_distmap = TileDistMap(diffmap, 0, ac_strategy),
               !.changed = FALSE,
               !.latest_within =
                  IF FLe(score, hq.best_score)
                  THEN [quant_dc |-> quantizer'.dc,
                        quant_field |-> quantizer'.field,
                        score |-> score]
                  ELSE hq.latest_within]
          /\ pc' = IF HQBudgetSpent(butteraugli_iter, hq.max_iters)
                   THEN "HQ_final"
                   ELSE "HQ_while"
  /\ UNCHANGED <<cparams, ac_strategy, quant_field, fbq, me, fn>>

HQRoundtrip == HQRoundtripOn(HQScores \X HQDiffMaps)

HQWhileCond ==
  ~hq.changed /\ FLt(cparams.butteraugli_distance, hq.score)

\* lines 1055-1092: one pass of the body of the while loop
HQSearch ==
  /\ pc = "HQ_while"
  /\ HQWhileCond
  /\ \E r \in {HQRadiusLoop(quant_field, hq.tile_distmap,
                             cparams.butteraugli_distance, 0, hq.search_radius,
                             hq.outer_iter, hq.quant_ceil)} :
     LET extend ==
           IF ~r.changed \/ hq.num_stalling_iters >= 3
           THEN HQExtend(hq.search_radius, hq.qmax, hq.quant_ceil, hq.quant_dc)
           ELSE "none"
         seen == [hq EXCEPT !.pass_changed = r.changed, !.extended = extend]
     IN /\ quant_field' = r.q
        /\ hq' = CASE extend = "search_radius" ->
                       [seen EXCEPT !.changed = r.changed,
                                    !.search_radius = hq.search_radius + 1]
                  [] extend = "quant_dc" ->
                       [seen EXCEPT !.changed = TRUE,
                                    !.quant_dc = FAdd(hq.quant_dc, Flt(1, 5))]
                  [] extend = "quant_ceil" ->
                       [seen EXCEPT !.changed = r.changed,
                                    !.quant_ceil = FAdd(hq.quant_ceil, Flt(1, 2))]
                  [] OTHER -> [seen EXCEPT !.changed = r.changed]
        /\ pc' = IF extend = "break" THEN "HQ_outer" ELSE "HQ_while"
  /\ UNCHANGED <<cparams, ac_strategy, quantizer, fbq, me, fn>>

\* an outer round that starts from the initial search parameters
HQOuterResets ==
  /\ \/ pc = "HQ_outer"
     \/ pc = "HQ_while" /\ ~HQWhileCond
  /\ IF hq.changed THEN
       /\ pc' = "HQ_loop"
       /\ UNCHANGED <<quant_field, hq>>
     ELSE IF hq.outer_iter + 1 = kMaxOuterIters THEN
       /\ hq' = [hq EXCEPT !.outer_iter = hq.outer_iter + 1]
       /\ pc' = "HQ_final"
       /\ UNCHANGED quant_field
     ELSE
       /\ hq' = [hq EXCEPT !.outer_iter = hq.outer_iter + 1,
                           !.num_stalling_iters = 0,
                           !.scaled = hq.scaled + 1,
                           !.search_radius = 0,
                           !.quant_ceil = Flt(5, 1),
                           !.quant_dc = Flt(6, 5)]
       /\ quant_field' = [c \in Cells |-> FMul(quant_field[c], kQuantScale)]
       /\ pc' = "HQ_loop"
  /\ UNCHANGED <<cparams, ac_strategy, quantizer, fbq, me, fn>>

\* lines 1093-1102, reached when the while loop ends
HQOuter ==
  /\ \/ pc = "HQ_outer"
     \/ pc = "HQ_while" /\ ~HQWhileCond
  /\ IF hq.changed THEN
       /\ pc' = "HQ_loop"
       /\ UNCHANGED <<quant_field, hq>>
     ELSE IF hq.outer_iter + 1 = kMaxOuterIters THEN
       /\ hq' = [hq EXCEPT !.outer_iter = hq.outer_iter + 1]
       /\ pc' = "HQ_final"
       /\ UNCHANGED quant_field
     ELSE
       /\ hq' = [hq EXCEPT !.outer_iter = hq.outer_iter + 1,
                           !.num_stalling_iters = 0,
                           !.scaled = hq.scaled + 1]
       /\ quant_field' = [c \in Cells |-> FMul(quant_field[c], kQuantScale)]
       /\ pc' = "HQ_loop"
  /\ UNCHANGED <<cparams, ac_strategy, quantizer, fbq, me, fn>>

\* a return that hands over the field in its current state
HQFinishCurrent ==
  /\ pc = "HQ_final"
  /\ quantizer' = SetQuantField(quantizer, hq.best_quant_dc, quant_field)
  /\ pc' = "done"
  /\ UNCHANGED <<cparams, ac_strategy, quant_field, fbq, hq, me, fn>>

\* line 1104
HQFinish ==
  /\ pc = "HQ_final"
  /\ quantizer' = SetQuantField(quantizer, hq.best_quant_dc, hq.best_quant_field)
  /\ pc' = "done"
  /\ UNCHANGED <<cparams, ac_strategy, quant_field, fbq, hq, me, fn>>

NextHQ == HQSetup \/ HQRoundtrip \/ HQSearch \/ HQOuter \/ HQFinish

SpecHQ == InitHQ /\ [][NextHQ]_vars

(***************************************************************************)
(* FindBestQuantizationHQ with a budget of MaxHQIters roundtrips, for a    *)
(* comparator that yields either a score above the target with every       *)
(* varblock below it, or a higher score with every varblock above it.      *)
(***************************************************************************)
HQLongResults ==
  {<<Flt(3, 1), [m0 |-> Uniform(Flt(1, 1)), m2 |-> Uniform(Flt(1, 1))]>>,
   <<Flt(4, 1), [m0 |-> Uniform(Flt(3, 1)), m2 |-> Uniform(Flt(3, 1))]>>}

HQLongParams ==
  Params({FALSE}, {"kTortoise"}, {FZero}, {Flt(2, 1)}, {0},
         {0, MaxHQIters - 1, MaxHQIters})

InitHQLong ==
  /\ pc = "FindBestQuantizationHQ"
  /\ cparams \in HQLongParams
  /\ ac_strategy = AcsLayout(2, 1, 1)
  /\ quant_field = Uniform(Flt(1, 1))
  /\ quantizer = NoQuantizer
  /\ fbq = Null /\ hq = Null /\ me = Null /\ fn = Null

HQRoundtripLong == HQRoundtripOn(HQLongResults)

NextHQLong == HQSetup \/ HQRoundtripLong \/ HQSearch \/ HQOuter \/ HQFinish

SpecHQLong == InitHQLong /\ [][NextHQLong]_vars

(***************************************************************************)
(* FindBestQuantizer: the choice of the regime, and the regimes that are   *)
(* a single quantizer call.                                                *)
(***************************************************************************)
\* the selection with the tests for kFalcon and uniform_quant exchanged
RegimeUniformFirst(cp) ==
  IF cp.max_error_mode THEN "FindBestQuantizationMaxError"
  ELSE IF FLt(FZero, cp.uniform_quant) THEN "uniform_quant"
  ELSE IF cp.speed_tier = "kFalcon" THEN "kFalcon"
  ELSE IF SpeedTierRank(cp.speed_tier) > SpeedTierRank("kKitten")
    THEN "fast_quant"
  ELSE IF cp.speed_tier = "kTortoise" THEN "FindBestQuantizationHQ"
  ELSE "FindBestQuantization"

Regime(cp) ==
  IF cp.max_error_mode THEN "FindBestQuantizationMaxError"
  ELSE IF cp.speed_tier = "kFalcon" THEN "kFalcon"
  ELSE IF FLt(FZero, cp.uniform_quant) THEN "uniform_quant"
  ELSE IF SpeedTierRank(cp.speed_tier) > SpeedTierRank("kKitten")
    THEN "fast_quant"
  ELSE IF cp.speed_tier = "kTortoise" THEN "FindBestQuantizationHQ"
  ELSE "FindBestQuantization"

DispatchParams ==
  Params(BOOLEAN, {SpeedTiers[k] : k \in 1 .. Len(SpeedTiers)},
         {FZero, Flt(3, 2)}, {Flt(2, 1)}, {0, 1}, {1, 2})

DispatchLayouts == {AcsLayout(1, 1, 0), AcsLayout(2, 1, 1)}

DispatchFields == {PatternField(<<Flt(1, 1), Flt(3, 1)>>, 1, 1, 0)}

Init ==
  /\ pc = "FindBestQuantizer"
  /\ cparams \in DispatchParams
  /\ ac_strategy \in DispatchLayouts
  /\ quant_field \in DispatchFields
  /\ quantizer = NoQuantizer
  /\ fn = [regime |-> "none", initial_quant_field |-> quant_field]
  /\ fbq = Null /\ hq = Null /\ me = Null

\* lines 1172-1198
FindBestQuantizer ==
  /\ pc = "FindBestQuantizer"
  /\ LET regime == Regime(cparams)
         quant_dc == InitialQuantDC(cparams.butteraugli_distance)
         quant_ac == FDiv(kAcQuant, cparams.butteraugli_distance)
         uniform == FMul(cparams.uniform_quant, cparams.rescale)
         adjusted == AdjustQuantField(ac_strategy, quant_field)
     IN /\ fn' = [fn EXCEPT !.regime = regime]
        /\ CASE regime = "kFalcon" ->
                  /\ quantizer' = SetQuant(quantizer, quant_dc, quant_ac)
                  /\ pc' = "done"
                  /\ UNCHANGED quant_field
             [] regime = "uniform_quant" ->
                  /\ quantizer' = SetQuant(quantizer, uniform, uniform)
                  /\ pc' = "done"
                  /\ UNCHANGED quant_field
             [] regime = "fast_quant" ->
                  /\ quant_field' = adjusted
                  /\ quantizer' = SetQuantField(quantizer, quant_dc, adjusted)
                  /\ pc' = "done"
             [] OTHER ->
                  /\ pc' = regime
                  /\ UNCHANGED <<quant_field, quantizer>>
  /\ UNCHANGED <<cparams, ac_strategy, fbq, hq, me>>

Next == FindBestQuantizer \/ NextME \/ NextHQ \/ NextFBQ

Spec == Init /\ [][Next]_vars

(***************************************************************************)
(* DiffPrecompute.  A float of the binade [2^-4, 2^-3) of the cutoff is    *)
(* kept as its 24 bit significand k, the float being k * 2^-27; sums of    *)
(* two or three of them and the products by 0.5f and 1.0f / 3 are rounded  *)
(* to nearest, ties to even, as float32 rounds them.  The pixel            *)
(* arithmetic up to std::min(cutoff, diff) is kept as the value diff it    *)
(* yields for a cell: input.main for the first-pixel, SIMD and scalar      *)
(* code, input.last for the last pixel of a row, input.lastrow for the     *)
(* pass over the last row.                                                 *)
(***************************************************************************)
kBlockDim == 8
DivCeil(a, b) == (a + b - 1) \div b
RoundUpToBlockDim(n) == DivCeil(n, kBlockDim) * kBlockDim

\* significands of 0.11883287948847132f and of 1.0f / 3 (times 2^-25)
kDiffCutoff == 15949479
kThird == 11184811
F32Min == 8388608
F32Max == 16777215

\* s rounded to a multiple of m, ties to the even multiple
F32RoundTo(s, m) ==
  LET q == s \div m
      r == s % m
  IN IF 2 * r < m THEN q * m
     ELSE IF 2 * r > m THEN (q + 1) * m
     ELSE IF q % 2 = 0 THEN q * m ELSE (q + 1) * m

\* a + b in float32, for 2^23 <= a + b < 2^26
F32Add(a, b) ==
  LET sum == a + b
  IN IF sum <= F32Max THEN sum
     ELSE IF sum <= 2 * F32Max + 1 THEN F32RoundTo(sum, 2)
     ELSE F32RoundTo(sum, 4)

\* v * (1.0f / 3) in float32: v * kThird / 2^25 with 3 * kThird = 2^25 + 1
F32MulThird(v) ==
  LET whole == v \div 3
      part == (v % 3) * (2 * F32Max + 2) + v
      den == 3 * (2 * F32Max + 2)
      q == part \div den
      r == part % den
  IN IF 2 * r < den THEN whole + q
     ELSE IF 2 * r > den THEN whole + q + 1
     ELSE IF (whole + q) % 2 = 0 THEN whole + q ELSE whole + q + 1

\* v * 0.5f, exact
F32MulHalf(v) == v \div 2

\* std::min(cutoff, diff) without the cutoff
MinCutoffNone(cutoff, diff) == diff

\* std::min(cutoff, diff)
MinCutoff(cutoff, diff) == IF diff < cutoff THEN diff ELSE cutoff

\* lines 456-464 and 495-503: lastval of the cells a (last), b and c, the
\* cell added first being b
LastVal(n, a, b, c) ==
  IF n >= 3 THEN F32MulThird(F32Add(F32Add(a, b), c))
  ELSE IF n >= 2 THEN F32MulHalf(F32Add(a, b))
  ELSE a

DiffPrecomputeSizeUnpadded(xsize, ysize) == [xsize |-> xsize, ysize |-> ysize]

\* lines 359-361
DiffPrecomputeSize(xsize, ysize) ==
  [xsize |-> RoundUpToBlockDim(xsize), ysize |-> RoundUpToBlockDim(ysize)]

PaddedCells(xsize, ysize) ==
  (0 .. DiffPrecomputeSize(xsize, ysize).xsize - 1)
    \X (0 .. DiffPrecomputeSize(xsize, ysize).ysize - 1)

Uninit == -1

\* the x at which the code for the last pixel of a row writes
LastPixelX(xsize) == IF xsize - 1 > 1 THEN xsize - 1 ELSE 1

\* lines 396-467: row y as the task of index y leaves it
DiffRow(xsize, cutoff, input, y) ==
  LET valid == [x \in 0 .. LastPixelX(xsize) |->
                  IF x < LastPixelX(xsize)
                  THEN MinCutoff(cutoff, input.main[<<x, y>>])
                  ELSE MinCutoff(cutoff, input.last[y])]
      lastval == LastVal(xsize, valid[xsize - 1],
                         IF xsize >= 3 THEN valid[xsize - 3]
                         ELSE IF xsize >= 2 THEN valid[xsize - 2] ELSE 0,
                         IF xsize >= 3 THEN valid[xsize - 2] ELSE 0)
  IN [x \in 0 .. RoundUpToBlockDim(xsize) - 1 |->
        IF x <= LastPixelX(xsize) THEN valid[x] ELSE lastval]

\* lines 472-490: the pass over the last row
DiffLastRowPass(xsize, ysize, cutoff, input, padded_diff) ==
  LET y == ysize - 1
      row == [x \in 0 .. RoundUpToBlockDim(xsize) - 1 |->
                IF x + 1 < xsize THEN MinCutoff(cutoff, input.lastrow[x])
                ELSE padded_diff[<<x, y>>]]
  IN [c \in DOMAIN padded_diff |->
        IF c[2] # y THEN padded_diff[c]
        ELSE IF c[1] = xsize - 1 /\ c[1] > 0 THEN row[c[1] - 1]
        ELSE row[c[1]]]

\* lines 492-508: the rows down to a multiple of 8
DiffExtendRows(xsize, ysize, padded_diff) ==
  IF ysize = RoundUpToBlockDim(ysize) THEN padded_diff
  ELSE [c \in DOMAIN padded_diff |->
          IF c[2] < ysize THEN padded_diff[c]
          ELSE LastVal(ysize, padded_diff[<<c[1], ysize - 1>>],
                       IF ysize >= 2 THEN padded_diff[<<c[1], ysize - 2>>]
                       ELSE 0,
                       IF ysize >= 3 THEN padded_diff[<<c[1], ysize - 3>>]
                       ELSE 0)]

\* frame sizes: 1, 2, 3 and the sizes around a multiple of 8
FrameSizes == {n \in 1 .. MaxFrame : n <= 3 \/ n >= kBlockDim}

DiffVals == <<F32Min, 12000001, kDiffCutoff - 1, kDiffCutoff, 16000000>>

\* the all-saturated input and three inputs that vary along x and y
DiffPatterns == {<<0, 0, 4>>, <<1, 2, 0>>, <<1, 3, 1>>, <<0, 2, 3>>}

DiffVal(k) == DiffVals[(k % Len(DiffVals)) + 1]

DiffInputs(xsize, ysize) ==
  {[main |-> [c \in PaddedCells(xsize, ysize) |->
                DiffVal(p[1] * c[1] + p[2] * c[2] + p[3])],
    last |-> [y \in 0 .. ysize - 1 |-> DiffVal(p[2] * (y + 1) + p[3])],
    lastrow |-> [x \in 0 .. RoundUpToBlockDim(xsize) - 1 |->
                   DiffVal(p[1] * (x + 2) + p[3])]] :
     p \in DiffPatterns}

\* the state on entry to DiffPrecompute
InitDiff ==
  /\ pc = "DiffPrecompute"
  /\ \E xsize \in FrameSizes, ysize \in FrameSizes :
       \E input \in DiffInputs(xsize, ysize) :
         fn = [xsize |-> xsize, ysize |-> ysize, cutoff |-> kDiffCutoff,
               input |-> input,
               padded_diff |-> [c \in PaddedCells(xsize, ysize) |-> Uninit],
               tasks |-> 0 .. ysize - 1]
  /\ cparams = Null /\ quantizer = Null /\ ac_strategy = Null
  /\ quant_field = Null
  /\ fbq = Null /\ hq = Null /\ me = Null

\* one task of the RunOnPool of lines 371-469
DiffRowTask ==
  /\ pc = "DiffPrecompute"
  /\ \E y \in fn.tasks :
       LET row == DiffRow(fn.xsize, fn.cutoff, fn.input, y)
       IN fn' = [fn EXCEPT
                   !.padded_diff = [c \in DOMAIN fn.padded_diff |->
                                      IF c[2] = y THEN row[c[1]]
                                      ELSE fn.padded_diff[c]],
                   !.tasks = fn.tasks \ {y}]
  /\ UNCHANGED <<pc, cparams, ac_strategy, quant_field, quantizer, fbq, hq, me>>

\* lines 471-510, once every task of the pool has returned
DiffFinish ==
  /\ pc = "DiffPrecompute"
  /\ fn.tasks = {}
  /\ fn' = [fn EXCEPT !.padded_diff =
              DiffExtendRows(fn.xsize, fn.ysize,
                DiffLastRowPass(fn.xsize, fn.ysize, fn.cutoff, fn.input,
                                fn.padded_diff))]
  /\ pc' = "DiffPrecompute_done"
  /\ UNCHANGED <<cparams, ac_strategy, quant_field, quantizer, fbq, hq, me>>

NextDiff == DiffRowTask \/ DiffFinish

SpecDiff == InitDiff /\ [][NextDiff]_vars

(***************************************************************************)
(* InitialQuantField and AdaptiveQuantizationMap: the dimensions of the    *)
(* images on the way to the quant field.                                   *)
(***************************************************************************)
\* frame_dim.xsize_padded, frame_dim.ysize_padded
FrameDimPadded(xsize, ysize) ==
  [xsize |-> DivCeil(xsize, kBlockDim) * kBlockDim,
   ysize |-> DivCeil(ysize, kBlockDim) * kBlockDim]

\* the image ConvolveAndSample returns for an image of dimensions in
ConvolveAndSampleSize(in, res) ==
  [xsize |-> in.xsize \div res, ysize |-> in.ysize \div res]

\* lines 1118-1123: smoothed(xsize, ysize) of the padded frame
IntensityAcEstimateSize(xsize, ysize) ==
  LET rect == FrameDimPadded(xsize, ysize)
  IN [xsize |-> rect.xsize, ysize |-> rect.ysize]

\* lines 318-321
PerBlockModulationsAsserts(xyb_x, xyb_y, out) ==
  /\ DivCeil(xyb_x.xsize, kBlockDim) = out.xsize
  /\ DivCeil(xyb_x.ysize, kBlockDim) = out.ysize
  /\ DivCeil(xyb_y.xsize, kBlockDim) = out.xsize
  /\ DivCeil(xyb_y.ysize, kBlockDim) = out.ysize

InitAQMap ==
  /\ pc = "InitialQuantField"
  /\ \E xsize \in 1 .. MaxFrame, ysize \in 1 .. MaxFrame :
       fn = [xsize |-> xsize, ysize |-> ysize, intensity_ac_x |-> Null,
             intensity_ac_y |-> Null, diff |-> Null, out |-> Null]
  /\ cparams = Null /\ quantizer = Null /\ ac_strategy = Null
  /\ quant_field = Null
  /\ fbq = Null /\ hq = Null /\ me = Null

\* lines 1159-1160
CallIntensityAcEstimate ==
  /\ pc = "InitialQuantField"
  /\ fn' = [fn EXCEPT
              !.intensity_ac_x = IntensityAcEstimateSize(fn.xsize, fn.ysize),
              !.intensity_ac_y = IntensityAcEstimateSize(fn.xsize, fn.ysize)]
  /\ pc' = "AdaptiveQuantizationMap"
  /\ UNCHANGED <<cparams, ac_strategy, quant_field, quantizer, fbq, hq, me>>

\* lines 526-530
CallAdaptiveQuantizationMap ==
  /\ pc = "AdaptiveQuantizationMap"
  /\ LET diff == DiffPrecomputeSize(fn.xsize, fn.ysize)
         padded == diff.xsize % kBlockDim = 0 /\ diff.ysize % kBlockDim = 0
         out == ConvolveAndSampleSize(diff, kBlockDim)
     IN /\ fn' = [fn EXCEPT !.diff = diff, !.out = IF padded THEN out ELSE Null]
        /\ pc' = IF padded /\ PerBlockModulationsAsserts(fn.intensity_ac_x,
                                                         fn.intensity_ac_y, out)
                 THEN "AdaptiveQuantizationMap_done" ELSE "JXL_ASSERT"
  /\ UNCHANGED <<cparams, ac_strategy, quant_field, quantizer, fbq, hq, me>>

NextAQMap == CallIntensityAcEstimate \/ CallAdaptiveQuantizationMap

SpecAQMap == InitAQMap /\ [][NextAQMap]_vars

(***************************************************************************)
(* InitialQuantDC on its own, for two targets at a time.                   *)
(***************************************************************************)
DcTargets ==
  {Flt(1, 100), Flt(1, 50), Flt(1, 10), Flt(1, 2), Flt(1, 1), Flt(2, 1),
   Flt(29, 10), Flt(3, 1), Flt(4, 1), Flt(8, 1), Flt(16, 1)}

InitDC ==
  /\ pc = "InitialQuantDC"
  /\ \E t1 \in DcTargets, t2 \in DcTargets :
       /\ FLe(t1, t2)
       /\ fn = [t1 |-> t1, t2 |-> t2, r1 |-> Null, r2 |-> Null]
  /\ cparams = Null /\ quantizer = Null /\ ac_strategy = Null
  /\ quant_field = Null
  /\ fbq = Null /\ hq = Null /\ me = Null

CallInitialQuantDC ==
  /\ pc = "InitialQuantDC"
  /\ fn' = [fn EXCEPT !.r1 = InitialQuantDC(fn.t1),
                      !.r2 = InitialQuantDC(fn.t2)]
  /\ pc' = "InitialQuantDC_done"
  /\ UNCHANGED <<cparams, ac_strategy, quant_field, quantizer, fbq, hq, me>>

NextDC == CallInitialQuantDC

SpecDC == InitDC /\ [][NextDC]_vars

(***************************************************************************)
(* AdjustQuantField on its own: applied MaxAdjustCalls times in a row to   *)
(* a field of arbitrary values.                                            *)
(***************************************************************************)
AdjustVals == <<Flt(1, 1), Flt(2, 1), Flt(7, 2)>>

InitAdjust ==
  /\ pc = "adjust"
  /\ ac_strategy \in AcsLayouts
  /\ quant_field \in PatternFields(AdjustVals)
  /\ fn = [calls |-> 0, pre |-> quant_field, orig |-> quant_field]
  /\ cparams = Null /\ quantizer = Null
  /\ fbq = Null /\ hq = Null /\ me = Null

CallAdjustQuantField ==
  /\ pc = "adjust"
  /\ fn.calls < MaxAdjustCalls
  /\ quant_field' = AdjustQuantField(ac_strategy, quant_field)
  /\ fn' = [fn EXCEPT !.calls = fn.calls + 1, !.pre = quant_field]
  /\ UNCHANGED <<pc, cparams, ac_strategy, quantizer, fbq, hq, me>>

NextAdjust == CallAdjustQuantField

SpecAdjust == InitAdjust /\ [][NextAdjust]_vars

(***************************************************************************)
(* DistToPeakMap on its own.                                               *)
(***************************************************************************)
PeakVals == <<Flt(0, 1), Flt(2, 1), Flt(5, 1)>>
PeakMins == {Flt(1, 1), Flt(3, 1)}
PeakWeights == {Flt(0, 1), Flt(1, 2), Flt(1, 1)}

InitPeak ==
  /\ pc = "peak"
  /\ fn \in [field : PatternFields(PeakVals), peak_min : PeakMins,
             local_radius : 0 .. MaxRadius, peak_weight : PeakWeights,
             result : {Null}]
  /\ cparams = Null /\ quantizer = Null /\ ac_strategy = Null
  /\ quant_field = Null
  /\ fbq = Null /\ hq = Null /\ me = Null

CallDistToPeakMap ==
  /\ pc = "peak"
  /\ pc' = "peak_done"
  /\ fn' = [fn EXCEPT !.result =
              DistToPeakMap(fn.field, fn.peak_min, fn.local_radius,
                            fn.peak_weight)]
  /\ UNCHANGED <<cparams, ac_strategy, quant_field, quantizer, fbq, hq, me>>

NextPeak == CallDistToPeakMap

SpecPeak == InitPeak /\ [][NextPeak]_vars

(***************************************************************************)
(* The pool tasks of DiffPrecompute, PerBlockModulations and               *)
(* IntensityAcEstimate, by the cells of the output image each task reads   *)
(* and writes.  A cell holds the expression that computed it, so that two  *)
(* schedules agree on a cell exactly when the cell was computed from the   *)
(* same inputs in both.  A task is a sequence of steps that other tasks    *)
(* may interleave with.                                                    *)
(***************************************************************************)
PoolFuncs == {"DiffPrecompute", "PerBlockModulations", "IntensityAcEstimate"}

\* the cells of a row one step of the subtraction handles
PoolChunk == 4

\* the output image: padded_diff, *out, smoothed
PoolOutSize(func, xsize, ysize) ==
  IF func = "DiffPrecompute" THEN DiffPrecomputeSize(xsize, ysize)
  ELSE IF func = "PerBlockModulations"
  THEN [xsize |-> DivCeil(xsize, kBlockDim), ysize |-> DivCeil(ysize, kBlockDim)]
  ELSE IntensityAcEstimateSize(xsize, ysize)

PoolOutCells(func, xsize, ysize) ==
  (0 .. PoolOutSize(func, xsize, ysize).xsize - 1)
    \X (0 .. PoolOutSize(func, xsize, ysize).ysize - 1)

\* the end of the range handed to RunOnPool: lines 372, 331, 1127
PoolNumTasks(func, xsize, ysize) ==
  IF func = "DiffPrecompute" THEN ysize
  ELSE IF func = "PerBlockModulations" THEN DivCeil(ysize, kBlockDim)
  ELSE IntensityAcEstimateSize(xsize, ysize).ysize

\* the steps of one task: the valid cells and the padding of a row of
\* DiffPrecompute, one step per block of PerBlockModulations, one step per
\* PoolChunk cells of IntensityAcEstimate
PoolNumSteps(func, xsize, ysize) ==
  IF func = "DiffPrecompute" THEN 2
  ELSE IF func = "PerBlockModulations" THEN DivCeil(xsize, kBlockDim)
  ELSE DivCeil(IntensityAcEstimateSize(xsize, ysize).xsize, PoolChunk)

\* the row a task works on: padded_diff.Row(y), out->Row(iy), smoothed.Row(y)
PoolTaskRow(task) == task

\* lines 456-464 with the cells read from the row above
DiffExtendReadsAbove(xsize, y) ==
  LET row == IF y > 0 THEN y - 1 ELSE y
  IN IF xsize >= 3 THEN <<<<xsize - 1, row>>, <<xsize - 3, row>>, <<xsize - 2, row>>>>
     ELSE IF xsize >= 2 THEN <<<<xsize - 1, row>>, <<xsize - 2, row>>>>
     ELSE <<<<xsize - 1, row>>>>

\* lines 456-464: the cells of row_out that lastval is made of, in the order
\* they are read
DiffExtendReads(xsize, y) ==
  IF xsize >= 3 THEN <<<<xsize - 1, y>>, <<xsize - 3, y>>, <<xsize - 2, y>>>>
  ELSE IF xsize >= 2 THEN <<<<xsize - 1, y>>, <<xsize - 2, y>>>>
  ELSE <<<<xsize - 1, y>>>>

\* the cells of the output a task reads in its step k, in order
PoolReads(func, xsize, ysize, task, k) ==
  LET y == PoolTaskRow(task)
  IN IF func = "DiffPrecompute"
     THEN (IF k = 1 THEN <<>> ELSE DiffExtendReads(xsize, y))
     ELSE IF func = "PerBlockModulations" THEN <<<<k - 1, y>>>>
     ELSE [j \in 1 .. PoolChunk |-> <<(k - 1) * PoolChunk + j - 1, y>>]

\* the cells of the output a task writes in its step k
PoolWrites(func, xsize, ysize, task, k) ==
  LET y == PoolTaskRow(task)
  IN IF func = "DiffPrecompute"
     THEN (IF k = 1 THEN {<<x, y>> : x \in 0 .. LastPixelX(xsize)}
           ELSE {<<x, y>> : x \in LastPixelX(xsize) + 1 ..
                                  RoundUpToBlockDim(xsize) - 1})
     ELSE IF func = "PerBlockModulations" THEN {<<k - 1, y>>}
     ELSE {<<x, y>> : x \in (k - 1) * PoolChunk .. k * PoolChunk - 1}

\* the expression a step stores in cell c, from the output as it stands
PoolValue(func, xsize, ysize, task, k, c, out) ==
  IF func = "DiffPrecompute"
  THEN (IF k = 1 THEN <<"diff", c>>
        ELSE <<"lastval",
               [j \in DOMAIN DiffExtendReads(xsize, PoolTaskRow(task)) |->
                  out[DiffExtendReads(xsize, PoolTaskRow(task))[j]]]>>)
  ELSE IF func = "PerBlockModulations" THEN <<"exp", c, out[c]>>
  ELSE <<"sub", c, out[c]>>

\* the output after step k of a task
PoolStep(func, xsize, ysize, task, k, out) ==
  [c \in DOMAIN out |->
     IF c \in PoolWrites(func, xsize, ysize, task, k)
     THEN PoolValue(func, xsize, ysize, task, k, c, out)
     ELSE out[c]]

\* the output on entry: padded_diff is not initialised, *out holds the seed,
\* smoothed holds the result of Symmetric3
PoolEntry(func, xsize, ysize) ==
  [c \in PoolOutCells(func, xsize, ysize) |->
     IF func = "DiffPrecompute" THEN <<"uninit">> ELSE <<"in", c>>]

\* lines 472-490 on expressions
PoolLastRowPass(xsize, ysize, out) ==
  LET y == ysize - 1
      row == [x \in 0 .. RoundUpToBlockDim(xsize) - 1 |->
                IF x + 1 < xsize THEN <<"lastrow", x>> ELSE out[<<x, y>>]]
  IN [c \in DOMAIN out |->
        IF c[2] # y THEN out[c]
        ELSE IF c[1] = xsize - 1 /\ c[1] > 0 THEN row[c[1] - 1]
        ELSE row[c[1]]]

\* lines 492-508 on expressions
PoolExtendRows(xsize, ysize, out) ==
  IF ysize = RoundUpToBlockDim(ysize) THEN out
  ELSE [c \in DOMAIN out |->
          IF c[2] < ysize THEN out[c]
          ELSE <<"lastval",
                 IF ysize >= 3
                 THEN <<out[<<c[1], ysize - 1>>], out[<<c[1], ysize - 2>>],
                        out[<<c[1], ysize - 3>>]>>
                 ELSE IF ysize >= 2
                 THEN <<out[<<c[1], ysize - 1>>], out[<<c[1], ysize - 2>>]>>
                 ELSE <<out[<<c[1], ysize - 1>>]>> >>]

\* what follows the pool in the function
PoolAfter(func, xsize, ysize, out) ==
  IF func = "DiffPrecompute"
  THEN PoolExtendRows(xsize, ysize, PoolLastRowPass(xsize, ysize, out))
  ELSE out

\* the tasks run one after the other, in the order of their index
RECURSIVE PoolInOrder(_, _, _, _, _, _)
PoolInOrder(func, xsize, ysize, task, k, out) ==
  IF task = PoolNumTasks(func, xsize, ysize) THEN out
  ELSE IF k > PoolNumSteps(func, xsize, ysize)
  THEN PoolInOrder(func, xsize, ysize, task + 1, 1, out)
  ELSE PoolInOrder(func, xsize, ysize, task, k + 1,
                   PoolStep(func, xsize, ysize, task, k, out))

\* frames of one to three rows and columns and of more than a block; the
\* planes of PerBlockModulations are padded, the frame of
\* IntensityAcEstimate fits one block
PoolFrames(func) ==
  IF func = "DiffPrecompute" THEN {1, 2, 3, 9} \X {1, 2, 3}
  ELSE IF func = "PerBlockModulations" THEN {8, 16} \X {8, 16, 24}
  ELSE {<<3, 8>>}

InitPool ==
  /\ pc = "RunOnPool"
  /\ \E func \in PoolFuncs :
       \E frame \in PoolFrames(func) :
         fn = [func |-> func, xsize |-> frame[1], ysize |-> frame[2],
               out |-> PoolEntry(func, frame[1], frame[2]),
               at |-> [t \in 0 .. PoolNumTasks(func, frame[1], frame[2]) - 1 |-> 0],
               reads |-> {}, writes |-> {}, joined |-> {}]
  /\ cparams = Null /\ quantizer = Null /\ ac_strategy = Null
  /\ quant_field = Null
  /\ fbq = Null /\ hq = Null /\ me = Null

\* the next step of any task that has steps left
PoolTaskStep ==
  /\ pc = "RunOnPool"
  /\ \E task \in DOMAIN fn.at :
       /\ fn.at[task] < PoolNumSteps(fn.func, fn.xsize, fn.ysize)
       /\ LET k == fn.at[task] + 1
              reads == PoolReads(fn.func, fn.xsize, fn.ysize, task, k)
          IN fn' = [fn EXCEPT
                      !.out = PoolStep(fn.func, fn.xsize, fn.ysize, task, k,
                                       fn.out),
                      !.at[task] = k,
                      !.reads = fn.reads \cup
                                  {<<task, reads[j]>> : j \in DOMAIN reads},
                      !.writes = fn.writes \cup
                                   {<<task, c>> : c \in
                                      PoolWrites(fn.func, fn.xsize, fn.ysize,
                                                 task, k)}]
  /\ UNCHANGED <<pc, cparams, ac_strategy, quant_field, quantizer, fbq, hq, me>>

\* RunOnPool returns once every task has returned
RunOnPoolReturns(at, steps) == \A task \in DOMAIN at : at[task] = steps

\* the return of RunOnPool and the rest of the function
PoolJoin ==
  /\ pc = "RunOnPool"
  /\ RunOnPoolReturns(fn.at, PoolNumSteps(fn.func, fn.xsize, fn.ysize))
  /\ fn' = [fn EXCEPT
              !.out = PoolAfter(fn.func, fn.xsize, fn.ysize, fn.out),
              !.joined = {task \in DOMAIN fn.at :
                            fn.at[task] =
                              PoolNumSteps(fn.func, fn.xsize, fn.ysize)}]
  /\ pc' = "RunOnPool_done"
  /\ UNCHANGED <<cparams, ac_strategy, quant_field, quantizer, fbq, hq, me>>

NextPool == PoolTaskStep \/ PoolJoin

SpecPool == InitPool /\ [][NextPool]_vars

(***************************************************************************)
(* AdjustQuantVal on its own, in float32.  A positive float is a pair      *)
(* <<e, m>> of value m * 2^(e - 23) with 2^23 <= m < 2^24, and 0 is        *)
(* <<0, 0>>; quotients and products are rounded to nearest, ties to even.  *)
(* The distance d is one for which d + 1.0f is a power of two and factor   *)
(* is 0 or a power of two, so that factor / (d + 1.0f) and the difference  *)
(* inv_q - factor / (d + 1.0f) are exact.                                  *)
(***************************************************************************)
F32Zero == <<0, 0>>
\* 1.0f / 0
F32Inf == <<129, F32Min>>

F32Lt(a, b) ==
  IF b[2] = 0 THEN FALSE
  ELSE IF a[2] = 0 THEN TRUE
  ELSE a[1] < b[1] \/ (a[1] = b[1] /\ a[2] < b[2])

F32MaxOf(a, b) == IF F32Lt(a, b) THEN b ELSE a

\* the float just below a and the float just above a
F32Pred(a) == IF a[2] = F32Min THEN <<a[1] - 1, F32Max>> ELSE <<a[1], a[2] - 1>>
F32Succ(a) == IF a[2] = F32Max THEN <<a[1] + 1, F32Min>> ELSE <<a[1], a[2] + 1>>

\* quotient and remainder of 2^n by m, from those of 2^k
RECURSIVE F32LongDiv(_, _, _, _, _)
F32LongDiv(m, n, k, quo, rem) ==
  IF k = n THEN <<quo, rem>>
  ELSE IF 2 * rem >= m THEN F32LongDiv(m, n, k + 1, 2 * quo + 1, 2 * rem - m)
  ELSE F32LongDiv(m, n, k + 1, 2 * quo, 2 * rem)

\* 1.0f / a
F32Recip(a) ==
  IF a[2] = 0 THEN F32Inf
  ELSE IF a[2] = F32Min THEN <<-a[1], F32Min>>
  ELSE LET d == F32LongDiv(a[2], 47, 0, 0, 1)
           up == 2 * d[2] > a[2] \/ (2 * d[2] = a[2] /\ d[1] % 2 = 1)
       IN <<-a[1] - 1, IF up THEN d[1] + 1 ELSE d[1]>>

\* a * b, the 48-bit product of the significands kept as hi * 2^24 + lo
F32Mul(a, b) ==
  LET ah == a[2] \div 4096
      al == a[2] % 4096
      bh == b[2] \div 4096
      bl == b[2] % 4096
      mid == ah * bl + al * bh
      low == (mid % 4096) * 4096 + al * bl
      lo == low % (F32Max + 1)
      hi == ah * bh + mid \div 4096 + low \div (F32Max + 1)
      big == hi >= F32Min
      keep == IF big THEN hi ELSE 2 * hi + lo \div F32Min
      rest == IF big THEN lo ELSE 2 * (lo % F32Min)
      up == rest > F32Min \/ (rest = F32Min /\ keep % 2 = 1)
      m == IF up THEN keep + 1 ELSE keep
      e == a[1] + b[1] + (IF big THEN 1 ELSE 0)
  IN IF m > F32Max THEN <<e + 1, F32Min>> ELSE <<e, m>>

RECURSIVE F32Normal(_, _)
F32Normal(e, m) ==
  IF m <= 0 THEN F32Zero
  ELSE IF m < F32Min THEN F32Normal(e - 1, 2 * m)
  ELSE <<e, m>>

RECURSIVE Pow2(_)
Pow2(n) == IF n = 0 THEN 1 ELSE 2 * Pow2(n - 1)

\* a - b for b zero or a power of two that is a multiple of the last place
\* of a; a difference below zero is given as zero
F32SubPow2(a, b) ==
  IF b[2] = 0 THEN a
  ELSE IF b[1] > a[1] THEN F32Zero
  ELSE F32Normal(a[1], a[2] - F32Min \div Pow2(a[1] - b[1]))

\* a / 2^k
F32Half(a, k) == IF a[2] = 0 THEN a ELSE <<a[1] - k, a[2]>>

\* 0.999f
k999 == <<-1, 16760439>>

\* AdjustQuantVal without the std::max
AdjustQuantValFloatNoMax(q, log2_d1, factor, quant_max) ==
  IF ~F32Lt(q, F32Mul(k999, quant_max)) THEN [q |-> q, ret |-> FALSE]
  ELSE LET inv_q == F32Recip(q)
           adj_inv_q == F32SubPow2(inv_q, F32Half(factor, log2_d1))
       IN [q |-> F32Recip(adj_inv_q), ret |-> TRUE]

\* lines 546-553 for d + 1.0f = 2^log2_d1
AdjustQuantValFloat(q, log2_d1, factor, quant_max) ==
  IF ~F32Lt(q, F32Mul(k999, quant_max)) THEN [q |-> q, ret |-> FALSE]
  ELSE LET inv_q == F32Recip(q)
           adj_inv_q == F32SubPow2(inv_q, F32Half(factor, log2_d1))
       IN [q |-> F32Recip(F32MaxOf(F32Recip(quant_max), adj_inv_q)),
           ret |-> TRUE]

\* significands: the ends of a binade, 1.4375 and the significand of 0.92f
AQVSignificands == {F32Min, F32Min + 1, 12058624, 15435038, F32Max}

\* quant_max: 5, 5.5, 6.5, 5.726f and 8
AQVQuantMax ==
  {<<2, 10485760>>, <<2, 11534336>>, <<2, 13631488>>, <<2, 12008292>>,
   <<3, F32Min>>}

\* q: floats of [0.5, 8), and the floats at and just below 0.999f * quant_max
AQVQ(quant_max) ==
  {<<e, m>> : e \in -1 .. 2, m \in AQVSignificands}
    \cup {F32Mul(k999, quant_max), F32Pred(F32Mul(k999, quant_max))}

\* factor: 0, 1/16, 1/4, 1 and 4
AQVFactor == {F32Zero} \cup {<<e, F32Min>> : e \in {-4, -2, 0, 2}}

InitAQV ==
  /\ pc = "AdjustQuantVal"
  /\ \E quant_max \in AQVQuantMax, factor \in AQVFactor, log2_d1 \in 0 .. 2 :
       \E q \in AQVQ(quant_max) :
         fn = [q |-> q, old_q |-> q, log2_d1 |-> log2_d1, factor |-> factor,
               quant_max |-> quant_max, ret |-> FALSE]
  /\ cparams = Null /\ quantizer = Null /\ ac_strategy = Null
  /\ quant_field = Null
  /\ fbq = Null /\ hq = Null /\ me = Null

CallAdjustQuantVal ==
  /\ pc = "AdjustQuantVal"
  /\ LET r == AdjustQuantValFloat(fn.q, fn.log2_d1, fn.factor, fn.quant_max)
     IN fn' = [fn EXCEPT !.q = r.q, !.ret = r.ret]
  /\ pc' = "AdjustQuantVal_done"
  /\ UNCHANGED <<cparams, ac_strategy, quant_field, quantizer, fbq, hq, me>>

NextAQV == CallAdjustQuantVal

SpecAQV == InitAQV /\ [][NextAQV]_vars

(***************************************************************************)
(* PerBlockModulations, one block after the other.  A cell of *out holds   *)
(* a float and the number of times exp and the scale were applied to it;   *)
(* each += is a float32 addition.  The four terms of a block are inputs:   *)
(* DctModulation, RangeModulation, HfModulation and GammaModulation        *)
(* compute them from the planes xyb_x and xyb_y at the block's origin.     *)
(***************************************************************************)
\* a signed float is a pair <<e, m>> with m below zero for a value below zero
F32Neg(a) == <<a[1], -a[2]>>

\* s * 2^(e - 23) rounded to float32, for |s| < 2^28
F32Round(e, s) ==
  LET a == IF s < 0 THEN -s ELSE s
      k == IF a <= F32Max THEN 0
           ELSE IF a <= 2 * F32Max + 1 THEN 1
           ELSE IF a <= 4 * F32Max + 3 THEN 2
           ELSE IF a <= 8 * F32Max + 7 THEN 3 ELSE 4
      m == F32RoundTo(a, Pow2(k)) \div Pow2(k)
      r == IF k = 0 THEN F32Normal(e, a)
           ELSE IF m > F32Max THEN <<e + k + 1, F32Min>> ELSE <<e + k, m>>
  IN IF s < 0 THEN F32Neg(r) ELSE r

\* a + b for signed floats: the significand of the operand of lower exponent
\* is shifted with three more bits kept, the last of them sticky
F32AddSigned(a, b) ==
  IF a[2] = 0 THEN b
  ELSE IF b[2] = 0 THEN a
  ELSE LET hi == IF a[1] >= b[1] THEN a ELSE b
           lo == IF a[1] >= b[1] THEN b ELSE a
           d == hi[1] - lo[1]
           lom == IF lo[2] < 0 THEN -lo[2] ELSE lo[2]
           q == IF d <= 3 THEN lom * Pow2(3 - d) ELSE lom \div Pow2(d - 3)
           sticky == d > 3 /\ lom % Pow2(d - 3) # 0
           l8 == IF sticky /\ q % 2 = 0 THEN q + 1 ELSE q
       IN IF d > 25 THEN hi
          ELSE F32Round(hi[1] - 3,
                        8 * hi[2] + (IF lo[2] < 0 THEN -l8 ELSE l8))

\* a / b for floats above zero
F32Div(a, b) ==
  LET big == a[2] >= b[2]
      d == F32LongDiv(b[2], IF big THEN 23 ELSE 24, 0,
                      IF big THEN 1 ELSE 0,
                      IF big THEN a[2] - b[2] ELSE a[2])
      up == 2 * d[2] > b[2] \/ (2 * d[2] = b[2] /\ d[1] % 2 = 1)
      m == IF up THEN d[1] + 1 ELSE d[1]
      e == a[1] - b[1] - (IF big THEN 0 ELSE 1)
  IN IF m > F32Max THEN <<e + 1, F32Min>> ELSE <<e, m>>

\* the constants of ComputeMask as floats, and 1e-3f
kBase == <<-1, 15099494>>
kMul1 == <<-7, 13776714>>
kOffset1 == <<-7, 11423405>>
kMul2 == <<-3, -11922693>>
kOffset2 == <<-4, 14290971>>
kDivMin == <<-10, 8589935>>

\* lines 71-81, for val >= 0
ComputeMask(val) ==
  LET div == F32MaxOf(F32AddSigned(val, kOffset1), kDivMin)
      low == F32AddSigned(F32Mul(val, val), kOffset2)
  IN F32AddSigned(F32AddSigned(kBase, F32Div(kMul1, div)),
                  F32Neg(F32Div(F32Neg(kMul2), low)))

\* *out_pos += ComputeMask(*out_pos) instead of the overwrite
ModMaskAdded(val) == F32AddSigned(val, ComputeMask(val))

\* line 339: what ComputeMask leaves in the cell
ModMask(val) == ComputeMask(val)

\* the seeds 0, 0.25, 1 and 0.0471...
ModSeeds == {F32Zero, <<-2, F32Min>>, <<0, F32Min>>, <<-5, 12650001>>}

\* the terms <<dct, range, hf, gamma>> of a block
ModTerms ==
  {<<dct, range, <<-1, -10000001>>, gamma>> :
     dct \in {<<-3, 9000001>>, <<-1, 12345679>>},
     range \in {<<0, -11111111>>, <<-2, 8388609>>},
     gamma \in {<<-2, -13000001>>, <<1, 8388611>>}}

\* the scale argument: 0.5 and 1.5
ModScales == {<<-1, F32Min>>, <<0, 12582912>>}

\* the planes of one block row or column and two
ModPlanes == {<<8, 8>>, <<16, 8>>, <<8, 16>>}

ModBlocks(xsize, ysize) ==
  (0 .. DivCeil(xsize, kBlockDim) - 1) \X (0 .. DivCeil(ysize, kBlockDim) - 1)

\* base + terms[1] + ... + terms[n] from left to right in float32
RECURSIVE ModSum(_, _, _)
ModSum(base, terms, n) ==
  IF n = 0 THEN base
  ELSE F32AddSigned(ModSum(base, terms, n - 1), terms[n])

InitMod ==
  /\ pc = "PerBlockModulations"
  /\ \E plane \in ModPlanes, scale \in ModScales :
       \E seed \in [ModBlocks(plane[1], plane[2]) -> ModSeeds],
          terms \in [ModBlocks(plane[1], plane[2]) -> ModTerms] :
         fn = [xsize |-> plane[1], ysize |-> plane[2], scale |-> scale,
               seed |-> seed, terms |-> terms,
               out |-> [b \in ModBlocks(plane[1], plane[2]) |->
                          [v |-> seed[b], exps |-> 0, scale |-> F32Zero]],
               masked |-> [b \in ModBlocks(plane[1], plane[2]) |-> 0],
               x |-> 0, task |-> 0, step |-> 0]
  /\ cparams = Null /\ quantizer = Null /\ ac_strategy = Null
  /\ quant_field = Null
  /\ fbq = Null /\ hq = Null /\ me = Null

\* out_pos = row_out + x / 8 of the task that runs
ModOutPos == <<fn.x \div kBlockDim, fn.task>>

\* line 339
ModComputeMask ==
  /\ pc = "PerBlockModulations" /\ fn.step = 0
  /\ fn' = [fn EXCEPT !.out[ModOutPos].v = ModMask(fn.out[ModOutPos].v),
                      !.masked[ModOutPos] = fn.masked[ModOutPos] + 1,
                      !.step = 1]
  /\ UNCHANGED <<pc, cparams, ac_strategy, quant_field, quantizer, fbq, hq, me>>

\* *out_pos += the k-th term of the block
ModAdd(k) ==
  /\ pc = "PerBlockModulations" /\ fn.step = k
  /\ fn' = [fn EXCEPT
              !.out[ModOutPos].v =
                 F32AddSigned(fn.out[ModOutPos].v, fn.terms[ModOutPos][k]),
              !.step = k + 1]
  /\ UNCHANGED <<pc, cparams, ac_strategy, quant_field, quantizer, fbq, hq, me>>

\* lines 340-343
DctModulation == ModAdd(1)
RangeModulation == ModAdd(2)
HfModulation == ModAdd(3)
GammaModulation == ModAdd(4)

\* line 347, then the next block of the row, the next task or the return
ModExpScale ==
  /\ pc = "PerBlockModulations" /\ fn.step = 5
  /\ LET rowdone == ~(fn.x + 8 < fn.xsize)
         last == rowdone /\ fn.task + 1 = DivCeil(fn.ysize, kBlockDim)
     IN /\ fn' = [fn EXCEPT
                    !.out[ModOutPos].exps = fn.out[ModOutPos].exps + 1,
                    !.out[ModOutPos].scale = fn.scale,
                    !.step = IF last THEN 6 ELSE 0,
                    !.x = IF rowdone THEN 0 ELSE fn.x + 8,
                    !.task = IF rowdone /\ ~last THEN fn.task + 1 ELSE fn.task]
        /\ pc' = IF last THEN "PerBlockModulations_done" ELSE pc
  /\ UNCHANGED <<cparams, ac_strategy, quant_field, quantizer, fbq, hq, me>>

NextMod ==
  \/ ModComputeMask \/ DctModulation \/ RangeModulation \/ HfModulation
  \/ GammaModulation \/ ModExpScale

SpecMod == InitMod /\ [][NextMod]_vars

(***************************************************************************)
(* EncodeBlockCtxMap and DecodeBlockCtxMap (entropy_coder.cc).  The writer *)
(* holds the bits written so far, least significant bit of a field first,  *)
(* and, after them, the entropy-coded context map.  U32Coder, the two      *)
(* threshold distributions, PackSigned and the context map coder are not   *)
(* in the files of this repository: the fields are coded as a 2-bit        *)
(* selector and the extra bits of the selected range, and the coded        *)
(* context map gives back its entries when as many are asked for as were   *)
(* written.                                                                *)
(***************************************************************************)
kNumStrategyOrders == 7

kDefaultCtxMap == <<0, 1, 2, 2, 3, 3, 4, 5, 6, 7, 7, 8, 8, 9, 5, 6, 7, 7, 8, 8, 9>>

kDCThresholdDist == <<[nbits |-> 4, offset |-> 0], [nbits |-> 8, offset |-> 16], [nbits |-> 16, offset |-> 272], [nbits |-> 32, offset |-> 65808]>>

kQFThresholdDist == <<[nbits |-> 2, offset |-> 0], [nbits |-> 3, offset |-> 4], [nbits |-> 5, offset |-> 12], [nbits |-> 8, offset |-> 44]>>

PackSigned(i) == IF i >= 0 THEN 2 * i ELSE -2 * i - 1

UnpackSigned(u) == IF u % 2 = 0 THEN u \div 2 ELSE -((u + 1) \div 2)

\* writer->Write(n_bits, v)
RECURSIVE WriteBits(_, _)
WriteBits(n_bits, v) == IF n_bits = 0 THEN <<>> ELSE <<v % 2>> \o WriteBits(n_bits - 1, v \div 2)

\* br->ReadBits(n_bits) at bit pos (0-based); bits past the end read as 0
RECURSIVE ReadBits(_, _, _)
ReadBits(bits, pos, n_bits) == IF n_bits = 0 THEN 0 ELSE (IF pos + 1 <= Len(bits) THEN bits[pos + 1] ELSE 0) + 2 * ReadBits(bits, pos + 1, n_bits - 1)

\* the first range of the distribution that holds v (0 when none does)
RECURSIVE U32Selector(_, _, _)
U32Selector(dist, v, s) == IF s > Len(dist) THEN 0 ELSE IF v >= dist[s].offset /\ v - dist[s].offset < Pow2(dist[s].nbits) THEN s ELSE U32Selector(dist, v, s + 1)

U32CanEncode(dist, v) == v >= 0 /\ U32Selector(dist, v, 1) # 0

U32Write(dist, v) == LET s == U32Selector(dist, v, 1) IN WriteBits(2, s - 1) \o WriteBits(dist[s].nbits, v - dist[s].offset)

U32Read(dist, bits, pos) == LET s == ReadBits(bits, pos, 2) + 1 IN [val |-> dist[s].offset + ReadBits(bits, pos + 2, dist[s].nbits), pos |-> pos + 2 + dist[s].nbits]

\* the thresholds of one list as the encoder hands them to U32Coder::Write
DcThresholdWrite(i) == PackSigned(i)

QfThresholdWrite(i) == i - 1

\* the value of one threshold from what U32Coder::Read returns
DcThresholdRead(u) == UnpackSigned(u)

QfThresholdReadRaw(u) == u

QfThresholdRead(u) == u + 1

RECURSIVE WriteList(_, _, _)
WriteList(dist, vals, k) == IF k > Len(vals) THEN <<>> ELSE U32Write(dist, vals[k]) \o WriteList(dist, vals, k + 1)

RECURSIVE ReadList(_, _, _, _)
ReadList(dist, bits, pos, n) == IF n = 0 THEN [vals |-> <<>>, pos |-> pos] ELSE LET r == U32Read(dist, bits, pos) rest == ReadList(dist, bits, r.pos, n - 1) IN [vals |-> <<r.val>> \o rest.vals, pos |-> rest.pos]

\* the largest entry of a context map
SeqMax(s) == LET vals == {s[k] : k \in 1..Len(s)} IN IF vals = {} THEN 0 ELSE CHOOSE x \in vals : \A y \in vals : y <= x

\* BlockCtxMap()
DefaultBlockCtxMap == [dc_thresholds |-> <<<<>>, <<>>, <<>>>>, qf_thresholds |-> <<>>, ctx_map |-> kDefaultCtxMap, num_ctxs |-> SeqMax(kDefaultCtxMap) + 1, num_dc_ctxs |-> 1]

NumDcCtxs(dct) == (Len(dct[1]) + 1) * (Len(dct[2]) + 1) * (Len(dct[3]) + 1)

CtxMapSize(num_dc_ctxs, qft) == 3 * kNumStrategyOrders * num_dc_ctxs * (Len(qft) + 1)

\* lines 288-290
IsDefaultCtxMap(m) == /\ m.dc_thresholds[1] = <<>> /\ m.dc_thresholds[2] = <<>> /\ m.dc_thresholds[3] = <<>> /\ m.qf_thresholds = <<>> /\ Len(m.ctx_map) = 21 /\ m.ctx_map = kDefaultCtxMap

\* lines 297-300 for one j
EncodeDcList(vals) == WriteBits(4, Len(vals)) \o WriteList(kDCThresholdDist, [k \in 1..Len(vals) |-> DcThresholdWrite(vals[k])], 1)

\* lines 302-305
EncodeQfList(vals) == WriteBits(4, Len(vals)) \o WriteList(kQFThresholdDist, [k \in 1..Len(vals) |-> QfThresholdWrite(vals[k])], 1)

\* every JXL_CHECK of the encoder passes
EncodeChecksPass(m) == IsDefaultCtxMap(m) \/ (/\ \A j \in 1..3 : \A k \in 1..Len(m.dc_thresholds[j]) : U32CanEncode(kDCThresholdDist, DcThresholdWrite(m.dc_thresholds[j][k])) /\ \A q \in 1..Len(m.qf_thresholds) : U32CanEncode(kQFThresholdDist, QfThresholdWrite(m.qf_thresholds[q])))

EncodeContextMap(ctx_map, num_ctxs) == ctx_map

EncodeBlockCtxMapBits(m) == IF IsDefaultCtxMap(m) THEN [bits |-> <<1>>, coded |-> <<>>] ELSE [bits |-> <<0>> \o EncodeDcList(m.dc_thresholds[1]) \o EncodeDcList(m.dc_thresholds[2]) \o EncodeDcList(m.dc_thresholds[3]) \o EncodeQfList(m.qf_thresholds), coded |-> EncodeContextMap(m.ctx_map, m.num_ctxs)]

\* DecodeContextMap(&ctx_map, &num_ctxs, br) for a ctx_map of n entries
DecodeContextMap(coded, n) == IF Len(coded) = n THEN [ok |-> TRUE, ctx_map |-> coded, num_ctxs |-> SeqMax(coded) + 1] ELSE [ok |-> FALSE, ctx_map |-> [k \in 1..n |-> 0], num_ctxs |-> 0]

\* lines 310-343, into the BlockCtxMap into
DecodeBlockCtxMapBits(w, into) ==
  IF ReadBits(w.bits, 0, 1) = 1 THEN [ok |-> TRUE, map |-> DefaultBlockCtxMap]
  ELSE LET n0 == ReadBits(w.bits, 1, 4)
           d0 == ReadList(kDCThresholdDist, w.bits, 5, n0)
           n1 == ReadBits(w.bits, d0.pos, 4)
           d1 == ReadList(kDCThresholdDist, w.bits, d0.pos + 4, n1)
           n2 == ReadBits(w.bits, d1.pos, 4)
           d2 == ReadList(kDCThresholdDist, w.bits, d1.pos + 4, n2)
           nq == ReadBits(w.bits, d2.pos, 4)
           q == ReadList(kQFThresholdDist, w.bits, d2.pos + 4, nq)
           dct == <<[k \in 1..Len(d0.vals) |-> DcThresholdRead(d0.vals[k])], [k \in 1..Len(d1.vals) |-> DcThresholdRead(d1.vals[k])], [k \in 1..Len(d2.vals) |-> DcThresholdRead(d2.vals[k])]>>
           qft == [k \in 1..Len(q.vals) |-> QfThresholdRead(q.vals[k])]
           num_dc_ctxs == NumDcCtxs(dct)
           read == [into EXCEPT !.dc_thresholds = dct, !.qf_thresholds = qft, !.num_dc_ctxs = num_dc_ctxs]
           cm == DecodeContextMap(w.coded, CtxMapSize(num_dc_ctxs, qft))
           full == [read EXCEPT !.ctx_map = cm.ctx_map, !.num_ctxs = cm.num_ctxs]
       IN IF num_dc_ctxs * (Len(qft) + 1) > 64 THEN [ok |-> FALSE, map |-> read]
          ELSE IF ~cm.ok THEN [ok |-> FALSE, map |-> full]
          ELSE IF cm.num_ctxs > 16 THEN [ok |-> FALSE, map |-> full]
          ELSE [ok |-> TRUE, map |-> full]

CtxDcLists0 == {<<>>, <<-300, 7, 140>>, <<-7, -6, -5, -4, -3, -2, -1, 0, 1, 2, 3, 4, 5, 6, 7>>}

CtxDcLists1 == {<<>>, <<-1>>, <<-9, 0, 8>>}

CtxDcLists2 == {<<>>, <<15>>}

CtxQfLists == {<<>>, <<1>>, <<5, 44, 300>>}

CtxPatterns == {"default", "flat", "spread16", "spread17"}

CtxMapOf(pattern, n) == [k \in 1..n |-> CASE pattern = "default" -> kDefaultCtxMap[((k - 1) % 21) + 1] [] pattern = "flat" -> 0 [] pattern = "spread16" -> (k - 1) % 16 [] OTHER -> (k - 1) % 17]

InitCtx ==
  /\ pc = "EncodeBlockCtxMap"
  /\ \E d0 \in CtxDcLists0, d1 \in CtxDcLists1, d2 \in CtxDcLists2, q \in CtxQfLists, pattern \in CtxPatterns :
       LET dct == <<d0, d1, d2>>
           map == CtxMapOf(pattern, CtxMapSize(NumDcCtxs(dct), q))
       IN fn = [map |-> [dc_thresholds |-> dct, qf_thresholds |-> q, ctx_map |-> map, num_ctxs |-> SeqMax(map) + 1, num_dc_ctxs |-> NumDcCtxs(dct)],
                writer |-> [bits |-> <<>>, coded |-> <<>>],
                ok |-> FALSE, decoded |-> DefaultBlockCtxMap]
  /\ cparams = Null /\ quantizer = Null /\ ac_strategy = Null
  /\ quant_field = Null
  /\ fbq = Null /\ hq = Null /\ me = Null

EncodeBlockCtxMap ==
  /\ pc = "EncodeBlockCtxMap"
  /\ EncodeChecksPass(fn.map)
  /\ fn' = [fn EXCEPT !.writer = EncodeBlockCtxMapBits(fn.map)]
  /\ pc' = "DecodeBlockCtxMap"
  /\ UNCHANGED <<cparams, ac_strategy, quant_field, quantizer, fbq, hq, me>>

DecodeBlockCtxMap ==
  /\ pc = "DecodeBlockCtxMap"
  /\ \E r \in {DecodeBlockCtxMapBits(fn.writer, fn.decoded)} :
       fn' = [fn EXCEPT !.ok = r.ok, !.decoded = r.map]
  /\ pc' = "DecodeBlockCtxMap_done"
  /\ UNCHANGED <<cparams, ac_strategy, quant_field, quantizer, fbq, hq, me>>

NextCtx == EncodeBlockCtxMap \/ DecodeBlockCtxMap

SpecCtx == InitCtx /\ [][NextCtx]_vars

(***************************************************************************)
(* TokenizeCoefficients (entropy_coder.cc) on the XSize x YSize rect of    *)
(* blocks.  A coefficient is kept as a number of halves, so that values    *)
(* that truncate to 0 occur.  The context of a token is left out: a token  *)
(* is its kind, its scan position and its value.                           *)
(***************************************************************************)
kDCTBlockSize == kBlockDim * kBlockDim

\* static_cast<int32_t> and ConvertTo(di, .) of a coefficient of h halves
TruncHalves(h) == IF h >= 0 THEN h \div 2 ELSE -((-h) \div 2)

\* CoefficientLayout(&cy, &cx): the canonical layout has rows <= columns
CoefficientLayout(cbx, cby) == IF cby > cbx THEN [cx |-> cby, cy |-> cbx] ELSE [cx |-> cbx, cy |-> cby]

\* position p of a block of cx * 8 columns lies in the cy rows and cx columns of the LLF
IsLLF(cx, cy, p) == p \div (cx * kBlockDim) < cy /\ p % (cx * kBlockDim) < cx

\* the count with the mask of the 8x8 case, whatever the size of the block
NumNonZeroExceptFirst(cx, cy, block) == Cardinality({p \in 0 .. cx * cy * kDCTBlockSize - 1 : p # 0 /\ TruncHalves(block[p + 1]) # 0})

NumNonZeroExceptLLF(cx, cy, block) == Cardinality({p \in 0 .. cx * cy * kDCTBlockSize - 1 : ~IsLLF(cx, cy, p) /\ TruncHalves(block[p + 1]) # 0})

NumNonZero8x8ExceptDC(block) == Cardinality({p \in 0 .. kDCTBlockSize - 1 : p # 0 /\ TruncHalves(block[p + 1]) # 0})

\* NumZeroBitsBelowLSBNonzero of a power of two
Log2CoveredBlocks(covered_blocks) == CHOOSE n \in 0 .. 8 : Pow2(n) = covered_blocks

\* lines 102-103
ShiftedNzeros(nzeros, covered_blocks) == (nzeros + covered_blocks - 1) \div Pow2(Log2CoveredBlocks(covered_blocks))

\* lines 241-250: the passes of the loop for the scan positions lo .. hi - 1,
\* begun with the counter nzeros, as their tokens and the counter at the end;
\* a pass with nzeros = 0 is the loop having ended
RECURSIVE TokenLoop(_, _, _, _, _)
TokenLoop(block, order, lo, hi, nzeros) ==
  IF hi <= lo \/ nzeros = 0 THEN [tokens |-> <<>>, nzeros |-> nzeros]
  ELSE IF hi = lo + 1
  THEN LET coeff == TruncHalves(block[order[lo + 1] + 1])
           prev == IF coeff # 0 THEN 1 ELSE 0
       IN [tokens |-> <<[kind |-> "coeff", k |-> lo, value |-> PackSigned(coeff)]>>, nzeros |-> nzeros - prev]
  ELSE CHOOSE both \in UNION {{[tokens |-> first.tokens \o second.tokens, nzeros |-> second.nzeros] :
                                 second \in {TokenLoop(block, order, (lo + hi) \div 2, hi, first.nzeros)}} :
                               first \in {TokenLoop(block, order, lo, (lo + hi) \div 2, nzeros)}} : TRUE

\* lines 216-252 for the block of a varblock in one channel
TokenizeBlock(cbx, cby, block, order) ==
  LET covered_blocks == cbx * cby
      size == covered_blocks * kDCTBlockSize
      lay == CoefficientLayout(cbx, cby)
      nzeros == CHOOSE n \in {IF covered_blocks = 1 THEN NumNonZero8x8ExceptDC(block) ELSE NumNonZeroExceptLLF(lay.cx, lay.cy, block)} : TRUE
      loop == CHOOSE r \in {TokenLoop(block, order, covered_blocks, size, nzeros)} : TRUE
  IN [tokens |-> <<[kind |-> "nzeros", k |-> 0, value |-> nzeros]>> \o loop.tokens,
      nzeros_end |-> loop.nzeros,
      shifted |-> IF covered_blocks = 1 THEN nzeros ELSE ShiftedNzeros(nzeros, covered_blocks),
      size |-> size]

\* the channels in the order of line 212
TokChannels == <<1, 0, 2>>

\* lines 199-215: the varblocks and channels the loops come to, in their order
RECURSIVE TokWorkFrom(_, _, _, _)
TokWorkFrom(acs, hshift, vshift, n) ==
  IF n >= NumCells * 3 THEN <<>>
  ELSE LET cell == CellAt(n \div 3)
           c == TokChannels[(n % 3) + 1]
           bx == cell[1]
           by == cell[2]
           sbxc == bx \div Pow2(hshift)
           sbyc == by \div Pow2(vshift)
           skip == \/ ~acs[cell].first
                   \/ (c # 1 /\ sbxc * Pow2(hshift) # bx)
                   \/ (c # 1 /\ sbyc * Pow2(vshift) # by)
       IN (IF skip THEN <<>>
           ELSE <<[bx |-> bx, by |-> by, c |-> c, cbx |-> acs[cell].cbx, cby |-> acs[cell].cby,
                   sbx |-> IF c = 1 THEN bx ELSE sbxc, sby |-> IF c = 1 THEN by ELSE sbyc]>>)
          \o TokWorkFrom(acs, hshift, vshift, n + 1)

\* the coefficients of one block, in halves
TokPatterns == <<"zero", "llf", "frac", "last", "dense", "head", "sparse">>

TokBlock(pattern, cx, cy) ==
  [i \in 1 .. cx * cy * kDCTBlockSize |->
     LET p == i - 1
     IN CASE pattern = "zero" -> 0
          [] pattern = "llf" -> IF IsLLF(cx, cy, p) THEN 6 ELSE 0
          [] pattern = "frac" -> IF IsLLF(cx, cy, p) THEN -8 ELSE IF p = cx * cy * kDCTBlockSize - 3 THEN -2 ELSE 1
          [] pattern = "last" -> IF p = cx * cy * kDCTBlockSize - 1 THEN 4 ELSE 0
          [] pattern = "dense" -> IF p % 2 = 0 THEN 2 ELSE -6
          [] pattern = "head" -> IF p = 2 THEN -4 ELSE 0
          [] OTHER -> IF p % 7 = 3 THEN 10 ELSE 0]

TokPatternAt(seed, k) == TokPatterns[((seed + k) % Len(TokPatterns)) + 1]

\* ac_rows[c]: the blocks of channel c one after the other
RECURSIVE TokAc(_, _, _, _)
TokAc(work, c, seed, k) ==
  IF k > Len(work) THEN <<>>
  ELSE (IF work[k].c = c
        THEN LET lay == CoefficientLayout(work[k].cbx, work[k].cby) IN TokBlock(TokPatternAt(seed, k), lay.cx, lay.cy)
        ELSE <<>>) \o TokAc(work, c, seed, k + 1)

\* coefficient orders: the LLF positions first, then the others in raster
\* order or in reverse; "plain" is the raster order of the whole block
TokOrderKinds == {"raster", "reverse", "plain"}

Reverse(s) == [k \in 1 .. Len(s) |-> s[Len(s) + 1 - k]]

TokOrder(kind, cx, cy) ==
  LET all == [i \in 1 .. cx * cy * kDCTBlockSize |-> i - 1]
      InLLF(p) == IsLLF(cx, cy, p)
      NotInLLF(p) == ~IsLLF(cx, cy, p)
      rest == SelectSeq(all, NotInLLF)
  IN IF kind = "plain" THEN all
     ELSE SelectSeq(all, InLLF) \o (IF kind = "reverse" THEN Reverse(rest) ELSE rest)

TokShifts == {<<0, 0>>, <<1, 0>>, <<1, 1>>}

TokSeeds == 0 .. 6

InitTok ==
  /\ pc = "TokenizeCoefficients"
  /\ ac_strategy \in AcsLayouts
  /\ \E shift \in TokShifts, kind \in TokOrderKinds, seed \in TokSeeds :
       LET work == TokWorkFrom(ac_strategy, shift[1], shift[2], 0)
       IN fn = [hshift |-> shift[1], vshift |-> shift[2], kind |-> kind,
                work |-> work, at |-> 0,
                ac |-> [c \in 0 .. 2 |-> TokAc(work, c, seed, 1)],
                offset |-> [c \in 0 .. 2 |-> 0],
                before |-> [c \in 0 .. 2 |-> 0],
                num_nzeroes |-> [c \in 0 .. 2 |-> [b \in Cells |-> 0]],
                emitted |-> <<>>, nzeros_end |-> 0, output |-> 0]
  /\ cparams = Null /\ quantizer = Null
  /\ quant_field = Null
  /\ fbq = Null /\ hq = Null /\ me = Null

\* the block of the item the loops are at: ac_rows[c] + offset[c]
TokBlockAt(item) == SubSeq(fn.ac[item.c], fn.offset[item.c] + 1, fn.offset[item.c] + item.cbx * item.cby * kDCTBlockSize)

TokOrderOf(item) == LET lay == CoefficientLayout(item.cbx, item.cby) IN TokOrder(fn.kind, lay.cx, lay.cy)

\* one pass of the body of the loop over c, lines 212-253
TokenizeVarblockChannel ==
  /\ pc = "TokenizeCoefficients" /\ fn.at < Len(fn.work)
  /\ LET item == fn.work[fn.at + 1]
     IN \E block \in {TokBlockAt(item)}, order \in {TokOrderOf(item)} :
        \E r \in {TokenizeBlock(item.cbx, item.cby, block, order)} :
          fn' = [fn EXCEPT
                   !.at = fn.at + 1,
                   !.emitted = r.tokens,
                   !.nzeros_end = r.nzeros_end,
                   !.output = fn.output + Len(r.tokens),
                   !.before = fn.offset,
                   !.offset[item.c] = fn.offset[item.c] + r.size,
                   !.num_nzeroes[item.c] = [b \in Cells |->
                       IF /\ b[1] >= item.sbx /\ b[1] < item.sbx + item.cbx
                          /\ b[2] >= item.sby /\ b[2] < item.sby + item.cby
                       THEN r.shifted ELSE fn.num_nzeroes[item.c][b]]]
  /\ UNCHANGED <<pc, cparams, ac_strategy, quant_field, quantizer, fbq, hq, me>>

\* the loops over by and bx have come to their end
TokenizeReturns ==
  /\ pc = "TokenizeCoefficients" /\ fn.at = Len(fn.work)
  /\ pc' = "TokenizeCoefficients_done"
  /\ UNCHANGED <<cparams, ac_strategy, quant_field, quantizer, fbq, hq, me, fn>>

NextTok == TokenizeVarblockChannel \/ TokenizeReturns

SpecTok == InitTok /\ [][NextTok]_vars

(***************************************************************************)
(* C6: after AdjustQuantField every cell covered by a first block holds    *)
(* the maximum of the values the cells of that varblock held before the    *)
(* call; the cell of a varblock covering a single cell is unchanged.       *)
(***************************************************************************)
C6_AdjustWritesBlockMax ==
  (pc = "adjust" /\ fn.calls > 0) =>
    \A b \in FirstBlocks(ac_strategy) :
      /\ \A c \in Covered(ac_strategy, b) :
           quant_field[c] = FMaxSet({fn.pre[d] : d \in Covered(ac_strategy, b)})
      /\ Cardinality(Covered(ac_strategy, b)) = 1 => quant_field[b] = fn.pre[b]

\* a call that raised a cell of a varblock spanning two rows
C6_Witness ==
  /\ pc = "adjust" /\ fn.calls = 1
  /\ \E b \in FirstBlocks(ac_strategy) :
       /\ ac_strategy[b].cby > 1
       /\ \E c \in Covered(ac_strategy, b) : FLt(fn.pre[c], quant_field[c])

(***************************************************************************)
(* C7: AdjustQuantField is idempotent: a second call in a row leaves the   *)
(* field as the first call left it.                                        *)
(***************************************************************************)
C7_AdjustIdempotent ==
  (pc = "adjust" /\ fn.calls >= 2) => quant_field = fn.pre

\* a second call after a first call that changed the field
C7_Witness ==
  pc = "adjust" /\ fn.calls = 2 /\ fn.pre # fn.orig

(***************************************************************************)
(* C9: DistToPeakMap gives every cell the least Chebyshev distance to a    *)
(* peak within local_radius of it, -1 when there is none, and 0 to every   *)
(* peak.                                                                   *)
(***************************************************************************)
PeaksNear(c) ==
  {p \in Cells :
     /\ IsPeak(fn.field, fn.peak_min, p, fn.local_radius, fn.peak_weight)
     /\ ChebDist(p, c) <= fn.local_radius}

C9_DistToPeakIsMinChebyshev ==
  pc = "peak_done" =>
    \A c \in Cells :
      /\ PeaksNear(c) = {} => fn.result[c] = -1
      /\ PeaksNear(c) # {} =>
           /\ \E p \in PeaksNear(c) : fn.result[c] = ChebDist(p, c)
           /\ \A p \in PeaksNear(c) : fn.result[c] <= ChebDist(p, c)
      /\ IsPeak(fn.field, fn.peak_min, c, fn.local_radius, fn.peak_weight)
           => fn.result[c] = 0

\* a map with a peak and a cell at distance 1 of one peak that has another
\* peak at distance 2 in its reach
C9_Witness ==
  /\ pc = "peak_done"
  /\ \E c \in Cells : fn.result[c] = 0
  /\ \E c \in Cells :
       /\ fn.result[c] = 1
       /\ \E p \in PeaksNear(c) : ChebDist(p, c) = 2

(***************************************************************************)
(* Block constancy: every cell of a varblock carries the same value.       *)
(***************************************************************************)
BlockConstant(acs, field) ==
  \A b \in FirstBlocks(acs) : \A c \in Covered(acs, b) : field[c] = field[b]


(***************************************************************************)
(* C2: when FindBestQuantization returns, every cell of the field handed   *)
(* to the quantizer lies in [qf_lower, qf_higher].  Violated: with         *)
(* max_butteraugli_iters = 0 no clamp runs, and for qf_max / qf_min > 250  *)
(* qf_lower lies above the smallest cell.                                  *)
(***************************************************************************)
C2_ReturnedFieldInEnvelope ==
  pc = "done" =>
    \A c \in Cells :
      /\ FLe(fbq.qf_lower, quantizer.field[c])
      /\ FLe(quantizer.field[c], fbq.qf_higher)

(***************************************************************************)
(* C3: every field FindBestQuantization passes to SetQuantField, in each   *)
(* iteration and after the loop, is block-constant.                        *)
(***************************************************************************)
C3_FBQFieldBlockConstant ==
  quantizer.op = "SetQuantField" => BlockConstant(ac_strategy, quantizer.field)

\* the final call, after an update raised a varblock of several cells and
\* the revert step of the last iteration took cells back
C3_Witness ==
  /\ pc = "done"
  /\ fbq.reverted # {}
  /\ \E b \in FirstBlocks(ac_strategy) :
       /\ Cardinality(Covered(ac_strategy, b)) > 1
       /\ b \in fbq.reverted
       /\ quantizer.field[b] # fbq.initial_quant_field[b]

(***************************************************************************)
(* C10: the bounds of the setup satisfy qf_higher / qf_lower < 253 for     *)
(* every strictly positive field, so the JXL_ASSERT does not fire.         *)
(***************************************************************************)
C10_QfRatioBelow253 ==
  /\ pc # "JXL_ASSERT"
  /\ fbq # Null => FLt(FDiv(fbq.qf_higher, fbq.qf_lower), Flt(253, 1))

\* a setup whose sqrt was rounded up, leaving the ratio above 250
C10_Witness ==
  /\ pc = "FBQ_loop"
  /\ FLt(Flt(250, 1), FDiv(fbq.qf_higher, fbq.qf_lower))

(***************************************************************************)
(* C1: starting from a strictly positive field, every cell of the quant    *)
(* field stays > 0 after every step of every search regime.  Violated in   *)
(* FindBestQuantizationMaxError: a varblock whose max_error is 0 is        *)
(* multiplied by qf_mul = 0.                                               *)
(***************************************************************************)
C1_FieldStaysPositive ==
  quant_field # Null => \A c \in Cells : FLt(FZero, quant_field[c])

(***************************************************************************)
(* C8: in FindBestQuantizationMaxError the multiplier of a varblock is in  *)
(* [1, inf) when max_error > 0.5 and in (0, 1] when max_error <= 0.5, so   *)
(* a cell never decreases unless its varblock's max_error < 0.5.           *)
(* Violated for max_error = 0, where the multiplier is 0.                  *)
(***************************************************************************)
C8_MaxErrorMultiplierRanges ==
  (me # Null /\ me.max_error # Null) =>
    \A b \in FirstBlocks(ac_strategy) : \A c \in Covered(ac_strategy, b) :
      LET max_error == me.max_error[b]
          qf_mul == FDiv(quant_field[c], me.before[c])
      IN /\ FLt(Flt(1, 2), max_error) => FLe(FOne, qf_mul)
         /\ FLe(max_error, Flt(1, 2)) => FLt(FZero, qf_mul) /\ FLe(qf_mul, FOne)
         /\ FLt(quant_field[c], me.before[c]) => FLt(max_error, Flt(1, 2))

(***************************************************************************)
(* C4: at every SetQuantField call of FindBestQuantizationHQ the field is  *)
(* constant on every varblock.  Violated once search_radius >= 1: a cell   *)
(* of a varblock within the radius of a peak is adjusted while another     *)
(* cell of the same varblock, out of the radius, is not.                   *)
(***************************************************************************)
C4_HQFieldBlockConstant ==
  (hq # Null /\ quantizer.op = "SetQuantField") =>
    BlockConstant(ac_strategy, quantizer.field)

(***************************************************************************)
(* C5: FindBestQuantizer runs exactly one regime, the first that matches   *)
(* in the order max_error_mode, speed_tier = kFalcon, uniform_quant > 0,   *)
(* speed_tier > kKitten, speed_tier = kTortoise, otherwise; the regimes    *)
(* without a search make the one quantizer call of the table.              *)
(***************************************************************************)
FirstMatch(cp) ==
  CASE cp.max_error_mode -> "FindBestQuantizationMaxError"
    [] ~cp.max_error_mode /\ cp.speed_tier = "kFalcon" -> "kFalcon"
    [] /\ ~cp.max_error_mode /\ cp.speed_tier # "kFalcon"
       /\ cp.uniform_quant[1] > 0 -> "uniform_quant"
    [] /\ ~cp.max_error_mode /\ cp.uniform_quant[1] <= 0
       /\ cp.speed_tier # "kFalcon"
       /\ SpeedTierRank(cp.speed_tier) > SpeedTierRank("kKitten")
         -> "fast_quant"
    [] /\ ~cp.max_error_mode /\ cp.uniform_quant[1] <= 0
       /\ SpeedTierRank(cp.speed_tier) <= SpeedTierRank("kKitten")
       /\ cp.speed_tier = "kTortoise" -> "FindBestQuantizationHQ"
    [] /\ ~cp.max_error_mode /\ cp.uniform_quant[1] <= 0
       /\ SpeedTierRank(cp.speed_tier) <= SpeedTierRank("kKitten")
       /\ cp.speed_tier \notin {"kTortoise", "kFalcon"}
         -> "FindBestQuantization"

C5_DispatchFirstMatch ==
  (fn # Null /\ pc # "FindBestQuantizer") =>
    LET r == FirstMatch(cparams)
        target == cparams.butteraugli_distance
        u == FMul(cparams.uniform_quant, cparams.rescale)
    IN /\ fn.regime = r
       /\ (me # Null) => r = "FindBestQuantizationMaxError"
       /\ (hq # Null) => r = "FindBestQuantizationHQ"
       /\ (fbq # Null) => r = "FindBestQuantization"
       /\ r = "FindBestQuantizationMaxError" =>
            pc \in {"FindBestQuantizationMaxError", "ME_loop", "done"}
       /\ r = "FindBestQuantizationHQ" =>
            pc \in {"FindBestQuantizationHQ", "HQ_loop", "HQ_while",
                    "HQ_outer", "HQ_final", "done"}
       /\ r = "FindBestQuantization" =>
            pc \in {"FindBestQuantization", "FBQ_loop", "FBQ_final",
                    "JXL_ASSERT", "done"}
       /\ r = "kFalcon" =>
            /\ pc = "done"
            /\ quantizer = SetQuant(NoQuantizer, InitialQuantDC(target),
                                    FDiv(kAcQuant, target))
            /\ quant_field = fn.initial_quant_field
       /\ r = "uniform_quant" =>
            /\ pc = "done"
            /\ quantizer = SetQuant(NoQuantizer, u, u)
            /\ quant_field = fn.initial_quant_field
       /\ r = "fast_quant" =>
            /\ pc = "done"
            /\ quant_field =
                 AdjustQuantField(ac_strategy, fn.initial_quant_field)
            /\ quantizer = SetQuantField(NoQuantizer, InitialQuantDC(target),
                                         quant_field)

\* a run with uniform_quant > 0 at kFalcon has made the kFalcon call
C5_Witness ==
  /\ fn # Null /\ pc = "done"
  /\ ~cparams.max_error_mode
  /\ cparams.uniform_quant[1] > 0
  /\ cparams.speed_tier = "kFalcon"
  /\ quantizer.op = "SetQuant"
  /\ quantizer.dc # quantizer.ac

(***************************************************************************)
(* C11: every cell of the image DiffPrecompute returns, the padding        *)
(* columns and rows included, is <= cutoff, and none is left unwritten.    *)
(***************************************************************************)
C11_DiffBelowCutoff ==
  pc = "DiffPrecompute_done" =>
    \A c \in DOMAIN fn.padded_diff :
      fn.padded_diff[c] # Uninit /\ fn.padded_diff[c] <= fn.cutoff

\* a frame padded in both directions whose corner padding cell is the
\* rounded mean of three rounded means and sits at the cutoff
C11_Witness ==
  /\ pc = "DiffPrecompute_done"
  /\ fn.xsize >= 3 /\ fn.ysize >= 3
  /\ fn.xsize < RoundUpToBlockDim(fn.xsize)
  /\ fn.ysize < RoundUpToBlockDim(fn.ysize)
  /\ \E c \in DOMAIN fn.padded_diff :
       /\ c[1] >= fn.xsize /\ c[2] >= fn.ysize
       /\ fn.padded_diff[c] = fn.cutoff

(***************************************************************************)
(* C12: for every frame of W x H pixels AdaptiveQuantizationMap returns a  *)
(* field of ceil(W/8) x ceil(H/8) cells and none of the size assertions    *)
(* on the way fires.                                                       *)
(***************************************************************************)
C12_FieldDimensions ==
  /\ pc # "JXL_ASSERT"
  /\ pc = "AdaptiveQuantizationMap_done" =>
       /\ 8 * (fn.out.xsize - 1) < fn.xsize /\ fn.xsize <= 8 * fn.out.xsize
       /\ 8 * (fn.out.ysize - 1) < fn.ysize /\ fn.ysize <= 8 * fn.out.ysize
       /\ fn.diff.xsize % 8 = 0 /\ fn.diff.ysize % 8 = 0

\* a frame of 9 x 8 pixels gives a field of 2 x 1 cells
C12_Witness ==
  /\ pc = "AdaptiveQuantizationMap_done"
  /\ fn.xsize = 9 /\ fn.ysize = 8
  /\ fn.out = [xsize |-> 2, ysize |-> 1]

(***************************************************************************)
(* C13: InitialQuantDC(t) <= 50 for every t > 0, InitialQuantDC is         *)
(* non-increasing in t, and InitialQuantDC(1) = 1.18.                      *)
(***************************************************************************)
C13_InitialQuantDCBounded ==
  pc = "InitialQuantDC_done" =>
    /\ FLe(fn.r1, Flt(50, 1)) /\ FLe(fn.r2, Flt(50, 1))
    /\ FLe(fn.r2, fn.r1)
    /\ fn.t1 = Flt(1, 1) => fn.r1 = Flt(118, 100)

\* a target where the cap at 50 acts, with a target above kDcMul where the
\* power law acts
C13_Witness ==
  /\ pc = "InitialQuantDC_done"
  /\ fn.t1 = Flt(1, 100) /\ fn.r1 = Flt(50, 1)
  /\ fn.t2 = Flt(8, 1) /\ FLt(FDiv(kDcQuant, fn.t2), fn.r2)

\* C14: in every iteration of FindBestQuantization cur_pow is 0, so the update
\* leaves a cell whose tile distance is at most the target unchanged apart
\* from the clamp to [qf_lower, qf_higher].
C14_CurPowAlwaysZero ==
  (pc = "FBQ_loop" /\ fbq.updates > 0) =>
    /\ fbq.cur_pow = FZero
    /\ \A c \in Cells :
         FLe(fbq.tile_distmap[c], cparams.butteraugli_distance) =>
           quant_field[c] = ClampQf(fbq.floored[c], fbq.qf_lower, fbq.qf_higher)

\* C14 as the code has it: cur_pow is 0.2 in iterations 0 and 1 and 0 from
\* iteration 2 on; a cell whose tile distance is at most the target is
\* multiplied by (distance / target)^0.2 in iterations 0 and 1 and is left
\* alone from iteration 2 on, in both cases before the clamp.
C14_CurPowZeroFromThirdIteration ==
  (pc = "FBQ_loop" /\ fbq.updates > 0) =>
    LET i == fbq.i - 1
        diff(c) == FDiv(fbq.tile_distmap[c], cparams.butteraugli_distance)
    IN /\ fbq.cur_pow = IF i < 2 THEN Flt(1, 5) ELSE FZero
       /\ \A c \in Cells :
            FLe(fbq.tile_distmap[c], cparams.butteraugli_distance) =>
              quant_field[c] =
                ClampQf(IF i < 2
                        THEN FMul(fbq.floored[c], FPow(diff(c), Flt(1, 5)))
                        ELSE fbq.floored[c],
                        fbq.qf_lower, fbq.qf_higher)

\* the update of iteration 2 has left a cell below the target alone
C14_Witness ==
  /\ pc = "FBQ_loop" /\ fbq.i = 3
  /\ \E c \in Cells :
       /\ FLt(fbq.tile_distmap[c], cparams.butteraugli_distance)
       /\ quant_field[c] = fbq.floored[c]

\* C15: in every iteration i of FindBestQuantization, for any
\* max_butteraugli_iters, the primary tile_distmap is built with margin 0
\* and the read of the margin at index i stays within the margin table.
C15_MarginLookupInTable ==
  (fbq # Null /\ fbq.roundtrips > 0) =>
    /\ fbq.margin_index < kMarginsLen
    /\ fbq.margin = 0

\* C16: in the image DiffPrecompute returns, every padding column of a valid
\* row holds the mean of the final values of the last min(3, W) valid cells
\* of the row, and every padding row holds, in each column, the mean of the
\* final values of the last min(3, H) valid cells of the column; the mean is
\* taken as lines 456-464 and 495-503 compute it.
C16_PaddingIsMeanOfFinalCells ==
  pc = "DiffPrecompute_done" =>
    LET W == fn.xsize
        H == fn.ysize
        out == fn.padded_diff
    IN \A c \in DOMAIN out :
         /\ (c[2] < H /\ c[1] >= W) =>
               out[c] = LastVal(W, out[<<W - 1, c[2]>>],
                                IF W >= 3 THEN out[<<W - 3, c[2]>>]
                                ELSE IF W >= 2 THEN out[<<W - 2, c[2]>>] ELSE 0,
                                IF W >= 3 THEN out[<<W - 2, c[2]>>] ELSE 0)
         /\ c[2] >= H =>
               out[c] = LastVal(H, out[<<c[1], H - 1>>],
                                IF H >= 2 THEN out[<<c[1], H - 2>>] ELSE 0,
                                IF H >= 3 THEN out[<<c[1], H - 3>>] ELSE 0)

\* C17: when FindBestQuantizationHQ returns, the quantizer has been set with
\* (best_quant_dc, best_quant_field), and that pair is the pair that was set in
\* the quantizer and roundtripped in the latest iteration whose score was at
\* most best_score; best_score is then max(score, butteraugli_target) and is
\* never below butteraugli_target.
C17_HQReturnsLatestBestPair ==
  /\ (pc = "done" /\ hq # Null /\ hq.latest_within # Null) =>
        /\ quantizer.op = "SetQuantField"
        /\ quantizer.dc = hq.best_quant_dc
        /\ quantizer.field = hq.best_quant_field
        /\ quantizer.dc = hq.latest_within.quant_dc
        /\ quantizer.field = hq.latest_within.quant_field
  /\ (hq # Null /\ hq.latest_within # Null) =>
        /\ hq.best_score = FMax(hq.latest_within.score,
                                cparams.butteraugli_distance)
        /\ FLe(cparams.butteraugli_distance, hq.best_score)

\* the function has returned after a last roundtrip that scored worse than
\* the best one, on a field the search had changed since
C17_Witness ==
  /\ pc = "done" /\ hq # Null /\ hq.latest_within # Null
  /\ hq.butteraugli_iter >= 2
  /\ FLt(hq.best_score, hq.score)
  /\ quant_field # hq.best_quant_field

\* the expansions of the search parameters that are still possible
HQExpansionsLeft ==
  (kMaxSearchRadius - hq.search_radius)
  + FToInt(FMul(Flt(2, 1), FSub(Flt(8, 1), hq.quant_ceil)))
  + FToInt(FMul(Flt(5, 1), FSub(Flt(12, 5), hq.quant_dc)))

HQBudget == IF cparams.max_butteraugli_iters_guetzli_mode > 1
            THEN cparams.max_butteraugli_iters_guetzli_mode ELSE 1

\* a bound on the steps FindBestQuantizationHQ has left: 40 per roundtrip
\* left, and within an iteration two per expansion left
HQStepsLeft ==
  IF pc = "done" THEN 0
  ELSE IF pc = "HQ_final" THEN 1
  ELSE IF pc = "FindBestQuantizationHQ" THEN 40 * (HQBudget + 1)
  ELSE 40 * (HQBudget - hq.butteraugli_iter)
       + (IF pc = "HQ_loop" THEN 0
          ELSE IF pc = "HQ_outer" THEN 1
          ELSE 2 + 2 * HQExpansionsLeft + (IF hq.changed THEN 0 ELSE 1))

\* C18: FindBestQuantizationHQ terminates for every sequence of comparator
\* results: every step of it, a pass of the inner expansion loop included,
\* lowers a bound on the steps left that never goes below 0; it makes at
\* least one and at most max(1, max_iters) roundtrips, and outer_iter never
\* exceeds 2, the loop ending when it reaches 2.
C18_HQTerminates ==
  /\ [][HQStepsLeft' < HQStepsLeft]_vars
  /\ [](/\ HQStepsLeft >= 0
        /\ hq # Null =>
             LET roundtrips == IF pc = "done" THEN quantizer.calls - 1
                               ELSE quantizer.calls
             IN /\ roundtrips <= HQBudget
                /\ roundtrips = hq.butteraugli_iter
                /\ pc = "done" => roundtrips >= 1
                /\ HQExpansionsLeft >= 0
                /\ hq.outer_iter <= kMaxOuterIters
                /\ hq.outer_iter = kMaxOuterIters
                     => pc \in {"HQ_final", "done"})

\* the function has returned because outer_iter reached 2, with roundtrips
\* left in its budget and after the inner loop was left with nothing to extend
C18_Witness ==
  /\ pc = "done" /\ hq # Null
  /\ hq.outer_iter = kMaxOuterIters
  /\ quantizer.calls - 1 < hq.max_iters
  /\ hq.extended = "break"

\* C19: in the inner loop of FindBestQuantizationHQ, a pass that leaves no
\* cell changed, or one made with num_stalling_iters >= 3, is followed by
\* exactly one expansion, the first that applies of: search_radius + 1 if
\* search_radius < 4 and (qmax < 0.99 * quant_ceil or quant_ceil >= 3 +
\* search_radius); quant_dc + 0.2 if quant_dc < 0.4 * quant_ceil - 0.8, which
\* also sets changed; quant_ceil + 0.5 if quant_ceil < 8.  The loop is left
\* by the break only when none of the three applies, and no other pass
\* extends anything.
C19_ExactlyOneExpansionByPriority ==
  [][(pc = "HQ_while" /\ HQWhileCond) =>
       LET wanted == ~hq'.pass_changed \/ hq.num_stalling_iters >= 3
           radius == /\ hq.search_radius < 4
                     /\ \/ FLt(hq.qmax, FMul(Flt(99, 100), hq.quant_ceil))
                        \/ FLe(Flt(3 + hq.search_radius, 1), hq.quant_ceil)
           dc == FLt(hq.quant_dc,
                     FSub(FMul(Flt(2, 5), hq.quant_ceil), Flt(4, 5)))
           ceil == FLt(hq.quant_ceil, Flt(8, 1))
           d_radius == hq'.search_radius - hq.search_radius
           d_dc == FSub(hq'.quant_dc, hq.quant_dc)
           d_ceil == FSub(hq'.quant_ceil, hq.quant_ceil)
       IN IF wanted /\ radius
          THEN /\ d_radius = 1 /\ d_dc = FZero /\ d_ceil = FZero
               /\ hq'.changed = hq'.pass_changed /\ pc' = "HQ_while"
          ELSE IF wanted /\ dc
          THEN /\ d_radius = 0 /\ d_dc = Flt(1, 5) /\ d_ceil = FZero
               /\ hq'.changed /\ pc' = "HQ_while"
          ELSE IF wanted /\ ceil
          THEN /\ d_radius = 0 /\ d_dc = FZero /\ d_ceil = Flt(1, 2)
               /\ hq'.changed = hq'.pass_changed /\ pc' = "HQ_while"
          ELSE /\ d_radius = 0 /\ d_dc = FZero /\ d_ceil = FZero
               /\ hq'.changed = hq'.pass_changed
               /\ pc' = IF wanted THEN "HQ_outer" ELSE "HQ_while"]_vars

\* the inner loop has been left by the break, every parameter extended as
\* far as it goes
C19_Witness ==
  /\ pc = "HQ_outer" /\ hq.extended = "break" /\ ~hq.pass_changed
  /\ hq.search_radius = 4
  /\ hq.quant_dc = Flt(12, 5)
  /\ hq.quant_ceil = Flt(8, 1)

\* C20: AdjustQuantVal returns false and leaves q unchanged if
\* q >= 0.999 * quant_max; otherwise it returns true with q set to
\* 1 / max(1 / quant_max, 1 / q - factor / (d + 1)), and for q > 0,
\* factor >= 0 and d >= 0 the new q is never below the old q and never above
\* quant_max.
C20_AdjustQuantValNeverLowers ==
  pc = "AdjustQuantVal_done" =>
    IF ~F32Lt(fn.old_q, F32Mul(k999, fn.quant_max))
    THEN ~fn.ret /\ fn.q = fn.old_q
    ELSE /\ fn.ret
         /\ ~F32Lt(fn.q, fn.old_q)
         /\ ~F32Lt(fn.quant_max, fn.q)

\* C20 as float32 has it: the new q is never below the float just below the
\* old q and never above the float just above quant_max.
C20_AdjustQuantValWithinOneUlp ==
  pc = "AdjustQuantVal_done" =>
    IF ~F32Lt(fn.old_q, F32Mul(k999, fn.quant_max))
    THEN ~fn.ret /\ fn.q = fn.old_q
    ELSE /\ fn.ret
         /\ ~F32Lt(fn.q, F32Pred(fn.old_q))
         /\ ~F32Lt(F32Succ(fn.quant_max), fn.q)

\* a call with factor 0 that returns true with q one float below the old q
C20_Witness ==
  /\ pc = "AdjustQuantVal_done" /\ fn.ret
  /\ fn.factor = F32Zero
  /\ fn.q = F32Pred(fn.old_q)

\* C21: for max_butteraugli_iters = N, FindBestQuantization makes N + 1
\* roundtrips with their comparison (i = 0 .. N) and N updates; the last pass
\* stops right after saving last_quant_field, so the field it leaves is the
\* saved one (only the revert step may have changed it after the comparison),
\* and one more SetQuantField call hands that field to the quantizer.
C21_RoundtripsAndUpdates ==
  LET N == cparams.max_butteraugli_iters
  IN /\ pc = "FBQ_loop" =>
          /\ fbq.i <= N
          /\ fbq.roundtrips = fbq.i /\ fbq.updates = fbq.i
          /\ quantizer.calls = fbq.roundtrips
     /\ pc \in {"FBQ_final", "done"} =>
          /\ fbq.i = N
          /\ fbq.roundtrips = N + 1 /\ fbq.updates = N
          /\ quant_field = fbq.last_quant_field
          /\ \A c \in Cells \ fbq.reverted : quant_field[c] = quantizer.field[c]
     /\ pc = "FBQ_final" => quantizer.calls = N + 1
     /\ pc = "done" =>
          /\ quantizer.calls = N + 2
          /\ quantizer.op = "SetQuantField"
          /\ quantizer.field = quant_field
          /\ quantizer.dc = fbq.initial_quant_dc

\* a run of three passes has returned, with a revert in its last pass
C21_Witness ==
  /\ pc = "done"
  /\ cparams.max_butteraugli_iters = 2
  /\ fbq.roundtrips = 3 /\ fbq.updates = 2
  /\ fbq.reverted # {}

\* C22: the revert step does nothing in iterations 0 and 1; in an iteration
\* i >= 2 it resets a cell to the value saved in iteration i - 1 (after that
\* iteration's revert and before its update) exactly when the cell is above
\* the saved value and its localopt distance is above 1.015 times the saved
\* localopt distance, and it leaves every other cell unchanged.
C22_RevertStep ==
  [][(pc = "FBQ_loop" /\ pc' \in {"FBQ_loop", "FBQ_final"}) =>
       LET i == fbq.i
           saved == fbq.last_quant_field
           after == fbq'.last_quant_field
           grew(c) ==
             /\ FLt(saved[c], quant_field[c])
             /\ FLt(FMul(Flt(1015, 1000), fbq.last_tile_distmap_localopt[c]),
                    fbq'.tile_distmap_localopt[c])
       IN /\ i < 2 => after = quant_field
          /\ i >= 2 =>
               \A c \in Cells :
                 after[c] = IF grew(c) THEN saved[c] ELSE quant_field[c]
          /\ fbq'.reverted = {c \in Cells : after[c] # quant_field[c]}
          /\ pc' = "FBQ_final" => quant_field' = after]_vars

\* a pass with i >= 2 has reset some cells and left the other cells alone
C22_Witness ==
  /\ pc \in {"FBQ_loop", "FBQ_final"}
  /\ fbq.margin_index >= 2
  /\ fbq.reverted # {} /\ fbq.reverted # Cells

FieldRegimes ==
  {"fast_quant", "FindBestQuantization", "FindBestQuantizationHQ",
   "FindBestQuantizationMaxError"}

\* C23: on return from every regime that sets a field (the fast path,
\* FindBestQuantization, FindBestQuantizationHQ, FindBestQuantizationMaxError)
\* the field last passed to SetQuantField equals the current content of
\* enc_state->initial_quant_field.
C23_QuantizerHoldsCurrentField ==
  (pc = "done" /\ fn.regime \in FieldRegimes) =>
    /\ quantizer.op = "SetQuantField"
    /\ quantizer.field = quant_field

\* C23 as the code has it: the fast path, FindBestQuantization and
\* FindBestQuantizationMaxError return with the quantizer holding the current
\* content of the field; FindBestQuantizationHQ returns with the quantizer
\* holding best_quant_field, the copy taken at the latest roundtrip whose
\* score was within best_score, whatever the field has become since.
C23_QuantizerHoldsCurrentOrBestField ==
  (pc = "done" /\ fn.regime \in FieldRegimes) =>
    /\ quantizer.op = "SetQuantField"
    /\ fn.regime # "FindBestQuantizationHQ" => quantizer.field = quant_field
    /\ fn.regime = "FindBestQuantizationHQ" =>
         /\ quantizer.field = hq.best_quant_field
         /\ quantizer.dc = hq.best_quant_dc
         /\ hq.latest_within # Null =>
              quantizer.field = hq.latest_within.quant_field

\* FindBestQuantizationHQ has returned after a second roundtrip that scored
\* worse than the first, on a field it had scaled in between
C23_Witness ==
  /\ pc = "done" /\ fn.regime = "FindBestQuantizationHQ"
  /\ hq.butteraugli_iter = 2 /\ hq.scaled = 1
  /\ quantizer.field = hq.best_quant_field
  /\ quantizer.field # quant_field

\* C24: in DiffPrecompute, PerBlockModulations and IntensityAcEstimate, under
\* every interleaving of the pool tasks, the task of index t writes only row t
\* of the output, no task reads a cell another task writes, the output is
\* the same as for the tasks run in order, and what follows the pool (the
\* last-row pass and bottom padding of DiffPrecompute) starts only when every
\* task has finished.
C24_TasksOwnTheirRows ==
  /\ \A w \in fn.writes : w[2][2] = w[1]
  /\ \A r \in fn.reads : \A w \in fn.writes : r[2] = w[2] => r[1] = w[1]
  /\ \A v \in fn.writes : \A w \in fn.writes : v[2] = w[2] => v[1] = w[1]
  /\ pc = "RunOnPool_done" =>
       /\ fn.joined = DOMAIN fn.at
       /\ fn.out = PoolAfter(fn.func, fn.xsize, fn.ysize,
                             PoolInOrder(fn.func, fn.xsize, fn.ysize, 0, 1,
                                         PoolEntry(fn.func, fn.xsize, fn.ysize)))

\* DiffPrecompute on a frame with padding on both sides: the task of row 1
\* has padded its row while the task of row 0 is between its two steps
C24_Witness ==
  /\ fn.func = "DiffPrecompute" /\ fn.xsize = 9 /\ fn.ysize = 2
  /\ pc = "RunOnPool" /\ fn.at[0] = 1 /\ fn.at[1] = 2
  /\ <<0, <<8, 0>>>> \notin fn.reads /\ <<1, <<8, 1>>>> \in fn.reads

\* the RoundtripImage calls made so far by the regime that runs
RoundtripsDone ==
  IF fbq # Null THEN fbq.roundtrips
  ELSE IF me # Null THEN me.roundtrips
  ELSE IF hq # Null THEN hq.butteraugli_iter
  ELSE 0

\* C25: in every search regime each RoundtripImage call comes right after a
\* SetQuantField call on the field as it stands, with no change of the field
\* in between, and the quantizer is set only there and on return, never while
\* a roundtrip runs.
C25_SetQuantFieldBeforeEachRoundtrip ==
  /\ [][(RoundtripsDone' # RoundtripsDone =>
            /\ RoundtripsDone' = RoundtripsDone + 1
            /\ quantizer'.op = "SetQuantField"
            /\ quantizer'.calls = quantizer.calls + 1
            /\ quantizer'.field = quant_field)
        /\ (quantizer' # quantizer =>
            /\ quantizer'.calls = quantizer.calls + 1
            /\ (RoundtripsDone' = RoundtripsDone + 1 \/ pc' = "done"))]_vars
  /\ [](pc # "done" => quantizer.calls = RoundtripsDone)

\* the second roundtrip of FindBestQuantization has run on the field that
\* the update of the first pass had changed
C25_Witness ==
  /\ fn.regime = "FindBestQuantization"
  /\ pc = "FBQ_final"
  /\ fbq.roundtrips = 2 /\ quantizer.calls = 2
  /\ quantizer.field # fbq.initial_quant_field
  /\ \A c \in Cells \ fbq.reverted : quantizer.field[c] = quant_field[c]

\* the permutations of the four terms
ModOrders == {p \in [1 .. 4 -> 1 .. 4] : \A i, j \in 1 .. 4 : p[i] = p[j] => i = j}

\* the blocks that the loop has finished, and the block it is at
ModFinished ==
  {b \in DOMAIN fn.out :
     \/ pc = "PerBlockModulations_done"
     \/ b[2] < fn.task
     \/ b[2] = fn.task /\ b[1] < fn.x \div kBlockDim}

\* the cells of *out through the loop: the seed before the block's turn, in
\* its turn ComputeMask(seed) plus the terms added so far, from left to right,
\* and after its turn exp of the sum of all four, times the scale, applied once
ModCellsInOrder ==
  \A b \in DOMAIN fn.out :
    IF b \in ModFinished
    THEN /\ fn.out[b].v = ModSum(ComputeMask(fn.seed[b]), fn.terms[b], 4)
         /\ fn.out[b].exps = 1 /\ fn.out[b].scale = fn.scale
         /\ fn.masked[b] = 1
    ELSE IF b = ModOutPos /\ fn.step > 0
    THEN /\ fn.out[b].v =
              ModSum(ComputeMask(fn.seed[b]), fn.terms[b], fn.step - 1)
         /\ fn.out[b].exps = 0 /\ fn.masked[b] = 1
    ELSE /\ fn.out[b].v = fn.seed[b]
         /\ fn.out[b].exps = 0 /\ fn.masked[b] = 0

\* C26: for each block PerBlockModulations overwrites the seed with
\* ComputeMask(seed), adds the DCT, range, HF and gamma terms, which depend
\* on the planes only, so that their order does not change the sum, and
\* applies exp and the scale once; every cell is processed once.
C26_ModulationsInAnyOrder ==
  /\ ModCellsInOrder
  /\ \A b \in ModFinished : \A p \in ModOrders :
       fn.out[b].v =
         ModSum(ComputeMask(fn.seed[b]), [k \in 1 .. 4 |-> fn.terms[b][p[k]]], 4)

\* C26 as the code has it: the terms are added to ComputeMask(seed) in the
\* order DCT, range, HF, gamma, each addition rounded to float32, and exp and
\* the scale are applied once to that sum; every cell is processed once.
C26_ModulationsInCodeOrder ==
  /\ ModCellsInOrder
  /\ pc = "PerBlockModulations_done" => ModFinished = DOMAIN fn.out

\* the function has returned from two blocks, one of them with terms whose
\* float32 sum depends on the order
C26_Witness ==
  /\ pc = "PerBlockModulations_done"
  /\ Cardinality(DOMAIN fn.out) = 2
  /\ \E b \in DOMAIN fn.out : \E p \in ModOrders :
       fn.out[b].v #
         ModSum(ComputeMask(fn.seed[b]), [k \in 1 .. 4 |-> fn.terms[b][p[k]]], 4)

\* C27: throughout FindBestQuantizationHQ search_radius is in 0 .. 4,
\* quant_ceil is in [5, 8] and changes only by +0.5, quant_dc starts at 1.2,
\* changes only by +0.2 and only while quant_dc < 0.4 * quant_ceil - 0.8, so
\* that it never exceeds 2.6, and none of the three decreases or is reset,
\* between outer rounds included.
C27_SearchParametersGrowBounded ==
  /\ [](hq # Null =>
          /\ hq.search_radius \in 0 .. kMaxSearchRadius
          /\ FLe(Flt(5, 1), hq.quant_ceil) /\ FLe(hq.quant_ceil, Flt(8, 1))
          /\ FLe(Flt(6, 5), hq.quant_dc) /\ FLe(hq.quant_dc, Flt(13, 5)))
  /\ [](pc = "HQ_loop" /\ hq.butteraugli_iter = 0 =>
          /\ hq.search_radius = 0
          /\ hq.quant_ceil = Flt(5, 1) /\ hq.quant_dc = Flt(6, 5))
  /\ [][pc # "FindBestQuantizationHQ" =>
          /\ hq'.search_radius \in {hq.search_radius, hq.search_radius + 1}
          /\ hq'.quant_ceil \in {hq.quant_ceil, FAdd(hq.quant_ceil, Flt(1, 2))}
          /\ hq'.quant_dc \in {hq.quant_dc, FAdd(hq.quant_dc, Flt(1, 5))}
          /\ (hq'.quant_dc # hq.quant_dc =>
                FLt(hq.quant_dc,
                    FSub(FMul(Flt(2, 5), hq.quant_ceil), Flt(4, 5))))]_vars

\* the second outer round has begun with the three parameters at their
\* largest values
C27_Witness ==
  /\ pc = "HQ_loop" /\ hq.outer_iter = 1
  /\ hq.search_radius = kMaxSearchRadius
  /\ hq.quant_ceil = Flt(8, 1) /\ hq.quant_dc = Flt(12, 5)

\* int(q * InvGlobalScale + 0.5) for the quantizer of the pass
QfInt(q) == FToInt(FAdd(FMul(q, InvGlobalScale(quantizer)), Flt(1, 2)))

\* C28: in the update step, for every cell whose tile distance is above the
\* target, the rounded integer of field * InvGlobalScale is strictly larger
\* after the raise than before it, before the clamp to [qf_lower, qf_higher]:
\* when the product by the distance ratio leaves the rounded integer as it
\* was, the cell becomes old + Scale.
C28_RaiseIncreasesRoundedQf ==
  (pc = "FBQ_loop" /\ fbq.updates > 0) =>
    \A c \in Cells :
      FLt(cparams.butteraugli_distance, fbq.tile_distmap[c]) =>
        LET old == fbq.floored[c]
            diff == FDiv(fbq.tile_distmap[c], cparams.butteraugli_distance)
            raised == RaiseCell(old, diff, quantizer)
        IN /\ FMul(Scale(quantizer), InvGlobalScale(quantizer)) = FOne
           /\ FLt(FZero, old)
           /\ QfInt(raised) > QfInt(old)
           /\ raised = IF QfInt(FMul(old, diff)) = QfInt(old)
                       THEN FAdd(old, Scale(quantizer)) ELSE FMul(old, diff)
           /\ quant_field[c] = ClampQf(raised, fbq.qf_lower, fbq.qf_higher)

\* an update has raised one cell by the distance ratio and another, whose
\* rounded integer the ratio would have left as it was, by one Scale
C28_Witness ==
  /\ pc = "FBQ_loop" /\ fbq.updates > 0
  /\ \E c \in Cells :
       /\ FLt(cparams.butteraugli_distance, fbq.tile_distmap[c])
       /\ QfInt(FMul(fbq.floored[c],
                     FDiv(fbq.tile_distmap[c], cparams.butteraugli_distance)))
            = QfInt(fbq.floored[c])
       /\ quant_field[c] = FAdd(fbq.floored[c], Scale(quantizer))
  /\ \E c \in Cells :
       /\ FLt(cparams.butteraugli_distance, fbq.tile_distmap[c])
       /\ QfInt(quant_field[c]) > QfInt(fbq.floored[c]) + 1

\* the maps the round trip is stated for
CtxInDomain(m) ==
  /\ \A j \in 1..3 : Len(m.dc_thresholds[j]) <= 15
  /\ Len(m.qf_thresholds) <= 15
  /\ \A k \in 1..Len(m.qf_thresholds) : m.qf_thresholds[k] >= 1
  /\ m.num_dc_ctxs * (Len(m.qf_thresholds) + 1) <= 64
  /\ m.num_ctxs <= 16

TokLast == fn.work[fn.at]

\* its block, read at the offset the pass began with
TokLastBlock == SubSeq(fn.ac[TokLast.c], fn.before[TokLast.c] + 1, fn.before[TokLast.c] + TokLast.cbx * TokLast.cby * kDCTBlockSize)

\* the order is a permutation of the positions of the block whose first
\* covered_blocks entries are the LLF positions
TokOrderPlacesLLFFirst(order, cx, cy) ==
  /\ {order[k] : k \in 1 .. Len(order)} = 0 .. cx * cy * kDCTBlockSize - 1
  /\ Len(order) = cx * cy * kDCTBlockSize
  /\ \A k \in 1 .. cx * cy : IsLLF(cx, cy, order[k])

\* scan positions (0-based) of the coefficients that truncate to a non-zero integer
TokNonZeroScan(block, order, covered_blocks) == {k \in covered_blocks .. Len(order) - 1 : TruncHalves(block[order[k + 1] + 1]) # 0}

SetMax(S) == CHOOSE x \in S : \A y \in S : y <= x

\* C30: for every varblock and channel TokenizeCoefficients processes, with
\* a coefficient order that is a permutation placing the covered_blocks LLF
\* positions first, one nzeros token is emitted, then one token per scan
\* position from covered_blocks up to and including the last non-zero
\* coefficient (none when no AC coefficient is non-zero); the running nzeros
\* counter is 0 when the loop ends; the offset of the channel advances by
\* covered_blocks * 64.
C30_TokensUpToLastNonZero ==
  (pc = "TokenizeCoefficients" /\ fn.at > 0) =>
    LET lay == CoefficientLayout(TokLast.cbx, TokLast.cby)
        covered_blocks == TokLast.cbx * TokLast.cby
    IN \A order \in {TokOrder(fn.kind, lay.cx, lay.cy)}, block \in {TokLastBlock} :
       \A nz \in {TokNonZeroScan(block, order, covered_blocks)} :
         TokOrderPlacesLLFFirst(order, lay.cx, lay.cy) =>
           /\ fn.emitted[1] = [kind |-> "nzeros", k |-> 0, value |-> Cardinality(nz)]
           /\ Len(fn.emitted) = 1 + (IF nz = {} THEN 0 ELSE SetMax(nz) - covered_blocks + 1)
           /\ \A t \in 2 .. Len(fn.emitted) :
                fn.emitted[t] = [kind |-> "coeff", k |-> covered_blocks + t - 2,
                                 value |-> PackSigned(TruncHalves(block[order[covered_blocks + t - 1] + 1]))]
           /\ fn.nzeros_end = 0
           /\ fn.offset[TokLast.c] = fn.before[TokLast.c] + covered_blocks * 64
           /\ \A c \in 0 .. 2 : c # TokLast.c => fn.offset[c] = fn.before[c]

\* a 2x2 varblock with non-zero LLF, coefficients that truncate to 0 and a
\* non-zero coefficient before the end of the scan has been tokenized in a
\* chroma channel, after blocks of the same channel
C30_Witness ==
  /\ pc = "TokenizeCoefficients" /\ fn.at > 0
  /\ fn.kind = "reverse"
  /\ TokLast.cbx = 2 /\ TokLast.cby = 2 /\ TokLast.c = 2
  /\ fn.before[2] > 0
  /\ TokLastBlock[1] # 0
  /\ \E p \in 1 .. Len(TokLastBlock) : TokLastBlock[p] = 1
  /\ Len(fn.emitted) > 1 /\ Len(fn.emitted) < 1 + 252
  /\ fn.nzeros_end = 0

=============================================================================
